---- MODULE Spec2Model ----
(***************************************************************************)
(* pulsekontrol: the assignment store (ConfigManager), configuration       *)
(* loading and saving, rule compilation and the MIDI control-change        *)
(* handler, as a state machine.                                            *)
(*                                                                         *)
(* Strings that the code takes apart (control ids, control paths) are      *)
(* sequences of tokens: "slider3" is <<"slider", "3">>, "Group3/Slider" is *)
(* <<"Group", "3", "/", "Slider">>.  Other strings are atomic.             *)
(***************************************************************************)
EXTENDS Integers, Sequences, FiniteSets, TLC

VARIABLES
    pc,             \* "stopped" | "running": is the process up
    file,           \* the content of the configuration path
    backup,         \* the content of configPath + ".legacy"
    config,         \* ConfigManager.config (Device, Controls.Sliders, Controls.Knobs)
    Rules,          \* MidiClient.Rules
    saveDebouncer,  \* is the debounce timer armed
    sweep,          \* the startup sweep: "idle" | "active" | "done"
    mig,            \* the migration in progress (between its unassign and its assign)
    ops,            \* number of external events so far
    lastOp,         \* the last operation: its arguments and what it published
    saved,          \* history: <<the configuration SaveNow wrote to the file>>, or Nil
    loaded,         \* history: the configuration the running process loaded at Run
    saveMutex,      \* ConfigManager.saveMutex: Nil, or <<the goroutine that holds it>>
    at,             \* where each goroutine is inside a handler that takes several steps
    header,         \* the words of the slice client.Rules in memory: its array and its length
    matched,        \* Nil, or <<the rules the last hardware event was matched against>>
    migrations,     \* history: the (control, legacy source) pairs this process migrated
    liveStreams,    \* the audio server's streams of each category, in enumeration order
    resolved,       \* Nil, or the last resolution of a stream ref against liveStreams
    tmp,            \* the content of configPath + ".tmp"
    prevStateHash,  \* monitorAudioSources: Nil, or <<the last state message it sent>>
    clients,        \* WebUIServer.clients: what each connected client has been sent
    writes          \* history: the writes of the configuration path since the last mutation

vars == <<pc, file, backup, config, Rules, saveDebouncer, sweep, mig, ops, lastOp, saved,
          loaded, saveMutex, at, header, matched, migrations, liveStreams, resolved,
          tmp, prevStateHash, clients, writes>>

----------------------------------------------------------------------------
(* Bounds *)

\* external events (UI messages, hardware events, signals) in one behaviour
MaxOps == 2

----------------------------------------------------------------------------
(* Strings *)

Range(s) == {s[i] : i \in DOMAIN s}

\* decimal tokens and the integer fmt.Sscanf's %d reads from them
NumVal == [t \in {"0", "1", "2", "3", "4", "5", "6", "7", "8", "9", "03"} |->
            CASE t = "0" -> 0 [] t = "1" -> 1 [] t = "2" -> 2 [] t = "3" -> 3
              [] t = "4" -> 4 [] t = "5" -> 5 [] t = "6" -> 6 [] t = "7" -> 7
              [] t = "8" -> 8 [] t = "9" -> 9 [] t = "03" -> 3]

\* fmt.Sprintf("%d", n) for the n the model meets
Itoa(n) ==
    CASE n = 0 -> "0" [] n = 1 -> "1" [] n = 2 -> "2" [] n = 3 -> "3" [] n = 4 -> "4"
      [] n = 5 -> "5" [] n = 6 -> "6" [] n = 7 -> "7" [] n = 8 -> "8" [] n = 9 -> "9"

\* strings.TrimPrefix
TrimPrefix(s, prefix) ==
    IF Len(s) > 0 /\ s[1] = prefix THEN Tail(s) ELSE s

\* strings.ToLower on the control kinds of a path
ToLower(t) ==
    CASE t = "Slider" -> "slider" [] t = "Knob" -> "knob" [] OTHER -> t

\* the control ids and paths of the device layout
SliderId(n) == <<"slider", Itoa(n)>>
KnobId(n) == <<"knob", Itoa(n)>>
SliderPath(n) == <<"Group", Itoa(n), "/", "Slider">>
KnobPath(n) == <<"Group", Itoa(n), "/", "Knob">>

----------------------------------------------------------------------------
(* Maps *)

EmptyMap == <<>>

MapPut(m, k, v) == [x \in (DOMAIN m) \cup {k} |-> IF x = k THEN v ELSE m[x]]

----------------------------------------------------------------------------
(* Configuration types and the default scaffold *)

Source(type, name, binaryName) ==
    [Type |-> type, Name |-> name, BinaryName |-> binaryName]

ControlConfig(path, value, sources) ==
    [Path |-> path, Value |-> value, Sources |-> sources]

DefaultDevice ==
    [Name |-> "KORG nanoKONTROL2",
     InPort |-> "nanoKONTROL2 nanoKONTROL2 _ CTR",
     OutPort |-> "nanoKONTROL2 nanoKONTROL2 _ CTR"]

DefaultValue == 50

GetDefaultConfig ==
    [Device |-> DefaultDevice,
     Controls |->
        [Sliders |-> [id \in {SliderId(n) : n \in 1..8} |->
                        ControlConfig(<<"Group", id[2], "/", "Slider">>, DefaultValue, <<>>)],
         Knobs |-> [id \in {KnobId(n) : n \in 1..8} |->
                        ControlConfig(<<"Group", id[2], "/", "Knob">>, DefaultValue, <<>>)]]]

\* the zero value of Config
ZeroConfig ==
    [Device |-> [Name |-> "", InPort |-> "", OutPort |-> ""],
     Controls |-> [Sliders |-> EmptyMap, Knobs |-> EmptyMap]]

\* Variant of ensureDefaults: the device fields are filled, the control maps are not
ensureDefaultsDeviceOnly(c) ==
    LET d == GetDefaultConfig
    IN [Device |->
            [Name |-> IF c.Device.Name = "" THEN d.Device.Name ELSE c.Device.Name,
             InPort |-> IF c.Device.InPort = "" THEN d.Device.InPort ELSE c.Device.InPort,
             OutPort |-> IF c.Device.OutPort = "" THEN d.Device.OutPort ELSE c.Device.OutPort],
        Controls |-> c.Controls]

\* ensureDefaults: empty device fields and missing controls are taken from the default
ensureDefaults(c) ==
    LET d == GetDefaultConfig
        fill(m, dm) == [id \in (DOMAIN m) \cup (DOMAIN dm) |->
                            IF id \in DOMAIN m THEN m[id] ELSE dm[id]]
    IN [Device |->
            [Name |-> IF c.Device.Name = "" THEN d.Device.Name ELSE c.Device.Name,
             InPort |-> IF c.Device.InPort = "" THEN d.Device.InPort ELSE c.Device.InPort,
             OutPort |-> IF c.Device.OutPort = "" THEN d.Device.OutPort ELSE c.Device.OutPort],
        Controls |->
            [Sliders |-> fill(c.Controls.Sliders, d.Controls.Sliders),
             Knobs |-> fill(c.Controls.Knobs, d.Controls.Knobs)]]

----------------------------------------------------------------------------
(* The configuration file: YAML documents as maps keyed by the yaml tags *)

Missing == [kind |-> "missing", doc |-> <<>>]
Garbage == [kind |-> "garbage", doc |-> <<>>]
Yaml(doc) == [kind |-> "yaml", doc |-> doc]

Has(m, k) == k \in DOMAIN m

\* Variant of MarshalSource: the binaryName key is never written
MarshalSourceNoBinaryName(s) ==
    [k \in {"type", "name"} |-> CASE k = "type" -> s.Type [] k = "name" -> s.Name]

\* yaml.Marshal of a Source: binaryName is omitempty
MarshalSource(s) ==
    [k \in {"type", "name"} \cup (IF s.BinaryName = "" THEN {} ELSE {"binaryName"}) |->
        CASE k = "type" -> s.Type [] k = "name" -> s.Name [] k = "binaryName" -> s.BinaryName]

MarshalControl(c) ==
    [path |-> c.Path,
     value |-> c.Value,
     sources |-> [i \in DOMAIN c.Sources |-> MarshalSource(c.Sources[i])]]

\* yaml.Marshal of a Config: controls.sliders and controls.knobs are omitempty
MarshalConfig(c) ==
    LET present == {k \in {"sliders", "knobs"} :
                        DOMAIN (IF k = "sliders" THEN c.Controls.Sliders
                                ELSE c.Controls.Knobs) # {}}
        controlsOf(k) == IF k = "sliders" THEN c.Controls.Sliders ELSE c.Controls.Knobs
    IN [device |-> [name |-> c.Device.Name,
                    inPort |-> c.Device.InPort,
                    outPort |-> c.Device.OutPort],
        controls |-> [k \in present |->
                        [id \in DOMAIN controlsOf(k) |-> MarshalControl(controlsOf(k)[id])]]]

\* yaml.Unmarshal into a Source: an absent key leaves the zero value
UnmarshalSource(y) ==
    Source(IF Has(y, "type") THEN y["type"] ELSE "",
           IF Has(y, "name") THEN y["name"] ELSE "",
           IF Has(y, "binaryName") THEN y["binaryName"] ELSE "")

UnmarshalControl(y) ==
    ControlConfig(IF Has(y, "path") THEN y["path"] ELSE <<>>,
                  IF Has(y, "value") THEN y["value"] ELSE 0,
                  IF Has(y, "sources")
                  THEN [i \in DOMAIN y["sources"] |-> UnmarshalSource(y["sources"][i])]
                  ELSE <<>>)

\* yaml.Unmarshal(content, &config): keys that Config does not know are ignored
UnmarshalConfig(doc) ==
    LET dev == IF Has(doc, "device") THEN doc["device"] ELSE <<>>
        ctl == IF Has(doc, "controls") THEN doc["controls"] ELSE <<>>
        controlsOf(k) == IF Has(ctl, k)
                         THEN [id \in DOMAIN ctl[k] |-> UnmarshalControl(ctl[k][id])]
                         ELSE EmptyMap
    IN [Device |-> [Name |-> IF Has(dev, "name") THEN dev["name"] ELSE "",
                    InPort |-> IF Has(dev, "inPort") THEN dev["inPort"] ELSE "",
                    OutPort |-> IF Has(dev, "outPort") THEN dev["outPort"] ELSE ""],
        Controls |-> [Sliders |-> controlsOf("sliders"), Knobs |-> controlsOf("knobs")]]

\* interface{} values: <<>> is nil, <<v>> holds v
Nil == <<>>

\* yaml.Unmarshal into an Action: the target node goes to RawTarget; Target is
\* tagged yaml:"-" and nothing in the package decodes RawTarget into it
UnmarshalAction(y) ==
    [Type |-> IF Has(y, "type") THEN y["type"] ELSE "",
     RawTarget |-> IF Has(y, "target") THEN y["target"] ELSE <<>>,
     Target |-> Nil]

UnmarshalRule(y) ==
    LET m == IF Has(y, "midiMessage") THEN y["midiMessage"] ELSE <<>>
    IN [MidiMessage |->
            [DeviceControlPath |-> IF Has(m, "deviceControlPath")
                                   THEN m["deviceControlPath"] ELSE <<>>],
        Actions |-> IF Has(y, "actions")
                    THEN [i \in DOMAIN y["actions"] |-> UnmarshalAction(y["actions"][i])]
                    ELSE <<>>]

UnmarshalMidiDevice(y) ==
    [Name |-> IF Has(y, "name") THEN y["name"] ELSE "",
     Type |-> IF Has(y, "type") THEN y["type"] ELSE "",
     MidiInName |-> IF Has(y, "midiInName") THEN y["midiInName"] ELSE "",
     MidiOutName |-> IF Has(y, "midiOutName") THEN y["midiOutName"] ELSE ""]

\* yaml.Unmarshal(content, &legacyConfig)
UnmarshalLegacy(doc) ==
    [MidiDevices |-> IF Has(doc, "midiDevices")
                     THEN [i \in DOMAIN doc["midiDevices"] |->
                                UnmarshalMidiDevice(doc["midiDevices"][i])]
                     ELSE <<>>,
     Rules |-> IF Has(doc, "rules")
               THEN [i \in DOMAIN doc["rules"] |-> UnmarshalRule(doc["rules"][i])]
               ELSE <<>>]

----------------------------------------------------------------------------
(* Legacy conversion *)

KorgNanoKontrol2 == "KorgNanoKontrol2"
SetVolume == "SetVolume"
ControlChange == "ControlChange"
Note == "Note"
ProgramChange == "ProgramChange"

\* strings.Split(path, "/"): the pieces between the "/" tokens
RECURSIVE Split(_)
Split(s) ==
    IF \A i \in DOMAIN s : s[i] # "/" THEN <<s>>
    ELSE LET i == CHOOSE j \in DOMAIN s : s[j] = "/" /\ \A k \in 1..(j - 1) : s[k] # "/"
         IN <<SubSeq(s, 1, i - 1)>> \o Split(SubSeq(s, i + 1, Len(s)))

\* the sources convertLegacyConfig appends for one rule's actions
RECURSIVE legacySources(_)
legacySources(actions) ==
    IF actions = <<>> THEN <<>>
    ELSE LET action == Head(actions)
         IN (IF action.Type = SetVolume /\ action.Target # Nil
             THEN <<Source(action.Target[1].Type, action.Target[1].Name, "")>>
             ELSE <<>>) \o legacySources(Tail(actions))

\* one iteration of convertLegacyConfig's loop over the rules
convertRule(c, rule) ==
    LET path == rule.MidiMessage.DeviceControlPath
        parts == Split(path)
        scanned == Len(parts[1]) >= 2 /\ parts[1][2] \in DOMAIN NumVal
        groupNum == NumVal[parts[1][2]]
        controlType == parts[2]
        added == legacySources(rule.Actions)
        bind(m, id) ==
            LET old == IF id \in DOMAIN m THEN m[id] ELSE ControlConfig(<<>>, 0, <<>>)
            IN MapPut(m, id, ControlConfig(path, old.Value, old.Sources \o added))
    IN IF path = <<>> \/ Len(parts) # 2 THEN c
       ELSE IF ~(Len(parts[1]) >= 1 /\ parts[1][1] = "Group") THEN c
       ELSE IF ~scanned \/ groupNum < 1 \/ groupNum > 8 THEN c
       ELSE IF controlType = <<"Slider">>
            THEN [c EXCEPT !.Controls.Sliders = bind(@, <<"slider", Itoa(groupNum)>>)]
       ELSE IF controlType = <<"Knob">>
            THEN [c EXCEPT !.Controls.Knobs = bind(@, <<"knob", Itoa(groupNum)>>)]
       ELSE c

RECURSIVE convertRules(_, _)
convertRules(c, rules) ==
    IF rules = <<>> THEN c ELSE convertRules(convertRule(c, Head(rules)), Tail(rules))

convertLegacyConfig(legacyConfig) ==
    LET d == GetDefaultConfig
        withDevice ==
            IF Len(legacyConfig.MidiDevices) > 0
               /\ legacyConfig.MidiDevices[1].Type = KorgNanoKontrol2
            THEN [d EXCEPT !.Device = [Name |-> legacyConfig.MidiDevices[1].Name,
                                       InPort |-> legacyConfig.MidiDevices[1].MidiInName,
                                       OutPort |-> legacyConfig.MidiDevices[1].MidiOutName]]
            ELSE d
    IN convertRules(withDevice, legacyConfig.Rules)

----------------------------------------------------------------------------
(* Load *)

\* Load(): the configuration, whether it returned an error, and the files it leaves
Load(f, bak) ==
    IF f.kind = "missing"
    THEN [config |-> GetDefaultConfig, err |-> FALSE,
          file |-> Yaml(MarshalConfig(GetDefaultConfig)), backup |-> bak]
    ELSE IF f.kind = "yaml" /\ UnmarshalConfig(f.doc).Device.Name # ""
    THEN [config |-> ensureDefaults(UnmarshalConfig(f.doc)), err |-> FALSE,
          file |-> f, backup |-> bak]
    ELSE IF f.kind # "yaml"
    THEN [config |-> GetDefaultConfig, err |-> TRUE, file |-> f, backup |-> bak]
    ELSE LET c == ensureDefaults(convertLegacyConfig(UnmarshalLegacy(f.doc)))
         IN [config |-> c, err |-> FALSE, file |-> Yaml(MarshalConfig(c)), backup |-> f]

----------------------------------------------------------------------------
(* ConfigManager: the store operations, as functions of the configuration *)

SliderPathOf(controlId) == <<"Group">> \o TrimPrefix(controlId, "slider") \o <<"/", "Slider">>
KnobPathOf(controlId) == <<"Group">> \o TrimPrefix(controlId, "knob") \o <<"/", "Knob">>

\* the controls map a control type names (no map for any other type)
ControlsOf(c, controlType) ==
    CASE controlType = "slider" -> c.Controls.Sliders
      [] controlType = "knob" -> c.Controls.Knobs
      [] OTHER -> EmptyMap

WithControls(c, controlType, m) ==
    CASE controlType = "slider" -> [c EXCEPT !.Controls.Sliders = m]
      [] controlType = "knob" -> [c EXCEPT !.Controls.Knobs = m]
      [] OTHER -> c

\* Variant of UpdateControlValue: the control is always written anew, as in the
\* branch for a control that does not exist, so its sources are emptied
UpdateControlValueAnew(c, controlType, controlId, value) ==
    LET m == ControlsOf(c, controlType)
    IN CASE controlType = "slider" ->
                WithControls(c, controlType,
                    MapPut(m, controlId, ControlConfig(SliderPathOf(controlId), value, <<>>)))
         [] controlType = "knob" ->
                WithControls(c, controlType,
                    MapPut(m, controlId, ControlConfig(KnobPathOf(controlId), value, <<>>)))
         [] OTHER -> c

\* the configuration after UpdateControlValue(controlType, controlId, value)
UpdateControlValue(c, controlType, controlId, value) ==
    LET m == ControlsOf(c, controlType)
    IN CASE controlType = "slider" ->
                IF controlId \in DOMAIN m
                THEN WithControls(c, controlType,
                        [m EXCEPT ![controlId].Value = value])
                ELSE WithControls(c, controlType,
                        MapPut(m, controlId,
                               ControlConfig(SliderPathOf(controlId), value, <<>>)))
         [] controlType = "knob" ->
                IF controlId \in DOMAIN m
                THEN WithControls(c, controlType,
                        [m EXCEPT ![controlId].Value = value])
                ELSE WithControls(c, controlType,
                        MapPut(m, controlId,
                               ControlConfig(KnobPathOf(controlId), value, <<>>)))
         [] OTHER -> c

\* Variant of alreadyAssigned: the binary names are compared against the new
\* source's display name
alreadyAssignedWrongField(existingSource, source) ==
    /\ existingSource.Type = source.Type
    /\ existingSource.Name = source.Name
    /\ existingSource.BinaryName = source.Name

\* the comparison AssignSource makes of an existing source with the new one
alreadyAssigned(existingSource, source) ==
    /\ existingSource.Type = source.Type
    /\ existingSource.Name = source.Name
    /\ existingSource.BinaryName = source.BinaryName

\* Variant of AssignSource: the loop that looks for an existing source is missing
AssignSourceAlways(c, controlType, controlId, source) ==
    LET m == ControlsOf(c, controlType)
    IN IF controlId \in DOMAIN m
       THEN [config |-> WithControls(c, controlType,
                            [m EXCEPT ![controlId].Sources = Append(@, source)]),
             returned |-> FALSE, currentValue |-> m[controlId].Value]
       ELSE [config |-> c, returned |-> FALSE, currentValue |-> 0]

\* Variant of AssignSource: currentValue keeps its initial 0
AssignSourceZeroValue(c, controlType, controlId, source) ==
    LET m == ControlsOf(c, controlType)
        found == controlId \in DOMAIN m
        present == found /\ \E i \in DOMAIN m[controlId].Sources :
                                alreadyAssigned(m[controlId].Sources[i], source)
    IN IF present
       THEN [config |-> c, returned |-> TRUE, currentValue |-> 0]
       ELSE IF found
       THEN [config |-> WithControls(c, controlType,
                            [m EXCEPT ![controlId].Sources = Append(@, source)]),
             returned |-> FALSE, currentValue |-> 0]
       ELSE [config |-> c, returned |-> FALSE, currentValue |-> 0]

\* AssignSource: the configuration after it, whether it returned early (the source
\* was already assigned), and the initialValue of its notification
AssignSource(c, controlType, controlId, source) ==
    LET m == ControlsOf(c, controlType)
        found == controlId \in DOMAIN m
        present == found /\ \E i \in DOMAIN m[controlId].Sources :
                                alreadyAssigned(m[controlId].Sources[i], source)
    IN IF present
       THEN [config |-> c, returned |-> TRUE, currentValue |-> 0]
       ELSE IF found
       THEN [config |-> WithControls(c, controlType,
                            [m EXCEPT ![controlId].Sources = Append(@, source)]),
             returned |-> FALSE, currentValue |-> m[controlId].Value]
       ELSE [config |-> c, returned |-> FALSE, currentValue |-> 0]

\* the filter loop of UnassignSource
RECURSIVE updatedSources(_, _)
updatedSources(sources, source) ==
    IF sources = <<>> THEN <<>>
    ELSE LET existingSource == Head(sources)
         IN (IF ~(existingSource.Type = source.Type
                  /\ existingSource.Name = source.Name
                  /\ existingSource.BinaryName = source.BinaryName)
             THEN <<existingSource>> ELSE <<>>) \o updatedSources(Tail(sources), source)

\* Variant of UnassignSource: the filter compares type and name only
UnassignSourceByName(c, controlType, controlId, source) ==
    LET m == ControlsOf(c, controlType)
        differs(existingSource) == ~(existingSource.Type = source.Type
                                     /\ existingSource.Name = source.Name)
    IN IF controlId \in DOMAIN m
       THEN WithControls(c, controlType,
                [m EXCEPT ![controlId].Sources = SelectSeq(@, differs)])
       ELSE c

\* the configuration after UnassignSource(controlType, controlId, source)
UnassignSource(c, controlType, controlId, source) ==
    LET m == ControlsOf(c, controlType)
    IN IF controlId \in DOMAIN m
       THEN WithControls(c, controlType,
                [m EXCEPT ![controlId].Sources = updatedSources(@, source)])
       ELSE c

----------------------------------------------------------------------------
(* Rule compilation *)

\* extractGroupNumber: Sscanf(path, "Group%d/", &groupNumber)
extractGroupNumber(path) ==
    IF Len(path) >= 3 /\ path[1] = "Group" /\ path[2] \in DOMAIN NumVal /\ path[3] = "/"
    THEN [ok |-> TRUE, groupNumber |-> NumVal[path[2]]]
    ELSE [ok |-> FALSE, groupNumber |-> 0]

Uint8(n) == n % 256

\* Variant of TypedTarget: the binary name is not carried into the action's target
TypedTargetNoBinaryName(source) == <<[Type |-> source.Type, Name |-> source.Name,
                                      BinaryName |-> ""]>>

TypedTarget(source) == <<[Type |-> source.Type, Name |-> source.Name,
                          BinaryName |-> source.BinaryName]>>

\* Variant of ruleOf: the controller is the group number, not the group number less one
ruleOfOffByOne(control, deviceName, base) ==
    [MidiMessage |-> [DeviceName |-> deviceName,
                      DeviceControlPath |-> control.Path,
                      Type |-> ControlChange,
                      Channel |-> 0,
                      Note |-> 0,
                      Controller |-> Uint8(base + extractGroupNumber(control.Path).groupNumber),
                      Program |-> 0,
                      MinValue |-> 0,
                      MaxValue |-> 0],
     Actions |-> [i \in DOMAIN control.Sources |->
                    [Type |-> SetVolume, Target |-> TypedTarget(control.Sources[i])]]]

\* the rule createRulesFromConfig builds for one control; base is the first
\* controller of the control's kind
ruleOf(control, deviceName, base) ==
    [MidiMessage |-> [DeviceName |-> deviceName,
                      DeviceControlPath |-> control.Path,
                      Type |-> ControlChange,
                      Channel |-> 0,
                      Note |-> 0,
                      Controller |-> Uint8(base + extractGroupNumber(control.Path).groupNumber - 1),
                      Program |-> 0,
                      MinValue |-> 0,
                      MaxValue |-> 0],
     Actions |-> [i \in DOMAIN control.Sources |->
                    [Type |-> SetVolume, Target |-> TypedTarget(control.Sources[i])]]]

\* the rules of one loop of createRulesFromConfig, visiting the map in `order`
RECURSIVE rulesOf(_, _, _, _)
rulesOf(m, order, deviceName, base) ==
    IF order = <<>> THEN <<>>
    ELSE LET control == m[Head(order)]
         IN (IF Len(control.Sources) > 0 /\ extractGroupNumber(control.Path).ok
             THEN <<ruleOf(control, deviceName, base)>>
             ELSE <<>>) \o rulesOf(m, Tail(order), deviceName, base)

Perms(S) == {s \in [1..Cardinality(S) -> S] : Range(s) = S}

\* The orders in which a range over map m can visit the controls that have sources.
\* Go leaves the iteration order of a map unspecified; the controls without
\* sources add no rule wherever they fall in it.
IterationOrders(m) == Perms({id \in DOMAIN m : Len(m[id].Sources) > 0})

\* createRulesFromConfig with the two maps visited in the given orders
createRulesFromConfig(c, sliderOrder, knobOrder) ==
    rulesOf(c.Controls.Sliders, sliderOrder, c.Device.Name, 0)
        \o rulesOf(c.Controls.Knobs, knobOrder, c.Device.Name, 16)

\* every rule list createRulesFromConfig can return for c
Compilations(c) ==
    {createRulesFromConfig(c, so, ko) :
        so \in IterationOrders(c.Controls.Sliders), ko \in IterationOrders(c.Controls.Knobs)}

----------------------------------------------------------------------------
(* The audio server's streams, and matching *)

playbackStreams == <<[Name |-> "Music", BinaryName |-> "mpv"]>>
recordStreams == <<>>

\* the streams of the audio server while the program runs
ServerStreams == [PlaybackStream |-> playbackStreams, RecordStream |-> recordStreams]

\* Variant of smartMatchStreams: a stream matches only with equal binary names, and
\* no migration stream is ever reported
RECURSIVE smartMatchStreamsStrict(_, _, _)
smartMatchStreamsStrict(streams, target, migrationStream) ==
    IF streams = <<>> THEN [matchedStreams |-> <<>>, migrationStream |-> migrationStream]
    ELSE LET stream == Head(streams)
             hit == stream.Name = target.Name /\ stream.BinaryName = target.BinaryName
             rest == smartMatchStreamsStrict(Tail(streams), target, migrationStream)
         IN [matchedStreams |-> (IF hit THEN <<stream>> ELSE <<>>) \o rest.matchedStreams,
             migrationStream |-> rest.migrationStream]

\* Variant of smartMatchStreams: a later matching stream with a binary name
\* replaces the migration stream found so far
RECURSIVE smartMatchStreamsLast(_, _, _)
smartMatchStreamsLast(streams, target, migrationStream) ==
    IF streams = <<>> THEN [matchedStreams |-> <<>>, migrationStream |-> migrationStream]
    ELSE LET stream == Head(streams)
             hit == IF target.BinaryName # ""
                    THEN stream.Name = target.Name /\ stream.BinaryName = target.BinaryName
                    ELSE stream.Name = target.Name
             mg == IF target.BinaryName = "" /\ hit /\ stream.BinaryName # ""
                   THEN <<stream>> ELSE migrationStream
             rest == smartMatchStreamsLast(Tail(streams), target, mg)
         IN [matchedStreams |-> (IF hit THEN <<stream>> ELSE <<>>) \o rest.matchedStreams,
             migrationStream |-> rest.migrationStream]

\* Variant of smartMatchStreams: the binary name is never compared
RECURSIVE smartMatchStreamsByName(_, _, _)
smartMatchStreamsByName(streams, target, migrationStream) ==
    IF streams = <<>> THEN [matchedStreams |-> <<>>, migrationStream |-> migrationStream]
    ELSE LET stream == Head(streams)
             hit == stream.Name = target.Name
             mg == IF target.BinaryName = "" /\ hit /\ migrationStream = Nil
                      /\ stream.BinaryName # ""
                   THEN <<stream>> ELSE migrationStream
             rest == smartMatchStreamsByName(Tail(streams), target, mg)
         IN [matchedStreams |-> (IF hit THEN <<stream>> ELSE <<>>) \o rest.matchedStreams,
             migrationStream |-> rest.migrationStream]

\* smartMatchStreams: the matched streams and the migration stream (Nil or <<stream>>)
RECURSIVE smartMatchStreams(_, _, _)
smartMatchStreams(streams, target, migrationStream) ==
    IF streams = <<>> THEN [matchedStreams |-> <<>>, migrationStream |-> migrationStream]
    ELSE LET stream == Head(streams)
             hit == IF target.BinaryName # ""
                    THEN stream.Name = target.Name /\ stream.BinaryName = target.BinaryName
                    ELSE stream.Name = target.Name
             mg == IF target.BinaryName = "" /\ hit /\ migrationStream = Nil
                      /\ stream.BinaryName # ""
                   THEN <<stream>> ELSE migrationStream
             rest == smartMatchStreams(Tail(streams), target, mg)
         IN [matchedStreams |-> (IF hit THEN <<stream>> ELSE <<>>) \o rest.matchedStreams,
             migrationStream |-> rest.migrationStream]

\* SmartMatchStreams(sourceType, sourceName)
SmartMatchStreams(sourceType, sourceName) ==
    LET target == [Type |-> sourceType, Name |-> sourceName, BinaryName |-> ""]
    IN CASE sourceType = "PlaybackStream" -> smartMatchStreams(playbackStreams, target, Nil)
         [] sourceType = "RecordStream" -> smartMatchStreams(recordStreams, target, Nil)
         [] OTHER -> [matchedStreams |-> <<>>, migrationStream |-> Nil]

----------------------------------------------------------------------------
(* Inputs *)

\* the files the program can find at its first start
NewFormatFile ==
    Yaml([device |-> [name |-> "nanoKONTROL2", inPort |-> "in", outPort |-> "out"],
          controls |->
            [sliders |->
                [id \in {SliderId(1)} |->
                    [path |-> SliderPath(1),
                     value |-> 30,
                     sources |-> <<[type |-> "PlaybackStream", name |-> "Music"],
                                   [type |-> "PlaybackStream", name |-> "Music",
                                    binaryName |-> "mpv"],
                                   [type |-> "OutputDevice", name |-> "Speakers"]>>]],
             knobs |->
                [id \in {KnobId(1)} |->
                    [path |-> KnobPath(1),
                     value |-> 30,
                     sources |-> <<[type |-> "OutputDevice", name |-> "Headphones"]>>]]]])

LegacyFile ==
    Yaml([midiDevices |-> <<[name |-> "nanoKONTROL2", type |-> KorgNanoKontrol2,
                             midiInName |-> "in", midiOutName |-> "out"]>>,
          rules |->
            <<[midiMessage |-> [deviceControlPath |-> SliderPath(3)],
               actions |-> <<[type |-> SetVolume,
                              target |-> [type |-> "PlaybackStream", name |-> "Music"]],
                             [type |-> SetVolume,
                              target |-> [type |-> "OutputDevice", name |-> "Speakers"]]>>],
              [midiMessage |-> [deviceControlPath |-> KnobPath(1)],
               actions |-> <<[type |-> SetVolume,
                              target |-> [type |-> "PlaybackStream", name |-> "Music"]]>>]>>])

InitialFiles == {Missing, NewFormatFile, LegacyFile, Garbage}

\* what a UI message can name: any control type and id, any value, and the source
\* its sourceId resolves to.  The store takes a whole Source (type, name, binary
\* name) from its caller, so the sources are drawn with and without a binary name.
UIControls == {<<"slider", SliderId(1)>>, <<"slider", SliderId(3)>>, <<"knob", KnobId(9)>>}
UIValues == {-5, 150}
UISources == {Source("PlaybackStream", "Music", ""),
              Source("PlaybackStream", "Music", "mpv")}
\* the updateControlValue messages: both values on slider1, one on the unknown knob9
UIUpdates == {<<"slider", SliderId(1), value>> : value \in UIValues}
                \cup {<<"knob", KnobId(9), 150>>}

\* what a hardware event can carry
MidiChannels == {0}
MidiControllers == {0, 16, 24}
CCValues == {1, 127}
MidiNotes == {0}
MidiVelocities == {127}
MidiPrograms == {0}
\* the control-change events: full scale on every controller, every value on controller 0
CCEvents == {<<channel, controller, 127>> : channel \in MidiChannels,
                                            controller \in MidiControllers}
                \cup {<<channel, 0, ccValue>> : channel \in MidiChannels, ccValue \in CCValues}

----------------------------------------------------------------------------
(* State *)

NoSource == Source("", "", "")

BlankOp(op) ==
    [op |-> op, controlType |-> "", controlId |-> <<>>, source |-> NoSource,
     channel |-> 0, controller |-> 0,
     value |-> 0, notified |-> <<>>, applied |-> <<>>]

\* a ProcessVolumeAction call: the target and the volume as a fraction
VolumeCall(target, num, den) == [Target |-> target, num |-> num, den |-> den]

NoSweep == [active |-> FALSE, todo |-> {}]
NoMig == [active |-> FALSE, controlType |-> "", controlId |-> <<>>,
          rest |-> <<>>, pending |-> <<>>]

\* the goroutines that touch the configuration: main runs the startup sweep, midi
\* is MidiClient.Run, ws serves a websocket connection, timer runs the debounced save,
\* broadcast is WebUIServer.handleBroadcasts, monitor is WebUIServer.monitorAudioSources
Goroutines == {"main", "midi", "ws", "timer", "broadcast", "monitor"}

\* a goroutine outside every handler
Idle == [pc |-> "idle", value |-> 0]

\* the slice header of a rule list
HeaderOf(rules) == [ptr |-> rules, len |-> Len(rules)]

Init ==
    /\ header = HeaderOf(<<>>)
    /\ matched = Nil
    /\ migrations = {}
    /\ liveStreams = ServerStreams
    /\ resolved = Nil
    /\ tmp = Missing
    /\ prevStateHash = Nil
    /\ clients = EmptyMap
    /\ writes = 0
    /\ saveMutex = Nil
    /\ at = [g \in Goroutines |-> Idle]
    /\ pc = "stopped"
    /\ file \in InitialFiles
    /\ backup = Missing
    /\ config = ZeroConfig
    /\ Rules = <<>>
    /\ saveDebouncer = FALSE
    /\ sweep = NoSweep
    /\ mig = NoMig
    /\ ops = 0
    /\ lastOp = BlankOp("")
    /\ saved = Nil
    /\ loaded = ZeroConfig

----------------------------------------------------------------------------
(* Process start and stop *)

\* Run: load the configuration, create the manager, compile the rules, subscribe,
\* start the MIDI client and begin the startup sweep; a Load error exits
Run ==
    /\ pc = "stopped"
    /\ LET r == Load(file, backup)
       IN IF r.err
          THEN /\ lastOp' = BlankOp("exit")
               /\ UNCHANGED <<pc, file, backup, config, Rules, saveDebouncer, sweep, mig, ops,
                              saved, loaded, saveMutex, at, header, matched, migrations,
                              liveStreams, resolved, tmp, prevStateHash, clients, writes>>
          ELSE /\ pc' = "running"
               /\ config' = r.config
               /\ file' = r.file
               /\ backup' = r.backup
               /\ Rules' \in Compilations(r.config)
               /\ sweep' = [active |-> TRUE,
                            todo |-> {<<"slider", id>> : id \in DOMAIN r.config.Controls.Sliders}
                                     \cup {<<"knob", id>> : id \in DOMAIN r.config.Controls.Knobs}]
               /\ lastOp' = BlankOp("Run")
               /\ saved' = IF r.file = file THEN saved ELSE Nil
               /\ loaded' = r.config
               /\ migrations' = {}
               /\ UNCHANGED <<saveDebouncer, mig, ops, saveMutex, at, header, matched,
                              liveStreams, resolved, tmp, prevStateHash, clients, writes>>

\* setupSignalHandling: on SIGINT/SIGTERM the process exits; its memory is gone
Signal ==
    /\ pc = "running"
    /\ ops < MaxOps
    /\ ops' = ops + 1
    /\ pc' = "stopped"
    /\ config' = ZeroConfig
    /\ Rules' = <<>>
    /\ saveDebouncer' = FALSE
    /\ sweep' = NoSweep
    /\ mig' = NoMig
    /\ loaded' = ZeroConfig
    /\ lastOp' = BlankOp("Signal")
    /\ migrations' = {}
    /\ UNCHANGED <<file, backup, saved, saveMutex, at, header, matched, liveStreams, resolved,
                   tmp, prevStateHash, clients, writes>>

----------------------------------------------------------------------------
(* Persistence *)

\* the debounce timer fires: SaveNow writes the temporary file and renames it
SaveNow ==
    /\ pc = "running"
    /\ saveDebouncer
    /\ file' = Yaml(MarshalConfig(config))
    /\ saveDebouncer' = FALSE
    /\ lastOp' = BlankOp("SaveNow")
    /\ saved' = <<config>>
    /\ UNCHANGED <<pc, backup, config, Rules, sweep, mig, ops, loaded, saveMutex, at, header,
                   matched, migrations, liveStreams, resolved, tmp, prevStateHash, clients,
                   writes>>

----------------------------------------------------------------------------
(* UI messages *)

\* handleWebSocket, "updateControlValue": ConfigManager.UpdateControlValue
UpdateControlValueMsg(controlType, controlId, value) ==
    /\ pc = "running"
    /\ ops < MaxOps
    /\ ops' = ops + 1
    /\ config' = UpdateControlValue(config, controlType, controlId, value)
    /\ saveDebouncer' = TRUE
    /\ lastOp' = [BlankOp("UpdateControlValue") EXCEPT
                    !.controlType = controlType, !.controlId = controlId,
                    !.value = value, !.notified = <<"control.value.updated">>]
    /\ UNCHANGED <<pc, file, backup, Rules, sweep, mig, saved, loaded, saveMutex, at, header,
                   matched, migrations, liveStreams, resolved, tmp, prevStateHash, clients,
                   writes>>

\* Variant of DoAssign: the subscriber compiles the configuration it captured
\* before the assignment instead of the latest one
DoAssignStaleRules(opName, controlType, controlId, source) ==
    LET r == AssignSource(config, controlType, controlId, source)
    IN /\ config' = r.config
       /\ IF r.returned
          THEN /\ lastOp' = [BlankOp(opName) EXCEPT
                                !.controlType = controlType, !.controlId = controlId,
                                !.source = source]
               /\ UNCHANGED <<Rules, saveDebouncer>>
          ELSE /\ Rules' \in Compilations(config)
               /\ saveDebouncer' = TRUE
               /\ lastOp' = [BlankOp(opName) EXCEPT
                                !.controlType = controlType, !.controlId = controlId,
                                !.source = source, !.value = r.currentValue,
                                !.notified = <<"source.assigned">>,
                                !.applied = <<VolumeCall(TypedTarget(source)[1],
                                                         r.currentValue, 100)>>]

\* ConfigManager.AssignSource with its "source.assigned" subscriber: the immediate
\* volume apply, the recompilation and MidiClient.UpdateRules
DoAssign(opName, controlType, controlId, source) ==
    LET r == AssignSource(config, controlType, controlId, source)
    IN /\ config' = r.config
       /\ IF r.returned
          THEN /\ lastOp' = [BlankOp(opName) EXCEPT
                                !.controlType = controlType, !.controlId = controlId,
                                !.source = source]
               /\ UNCHANGED <<Rules, saveDebouncer>>
          ELSE /\ Rules' \in Compilations(r.config)
               /\ saveDebouncer' = TRUE
               /\ lastOp' = [BlankOp(opName) EXCEPT
                                !.controlType = controlType, !.controlId = controlId,
                                !.source = source, !.value = r.currentValue,
                                !.notified = <<"source.assigned">>,
                                !.applied = <<VolumeCall(TypedTarget(source)[1],
                                                         r.currentValue, 100)>>]

\* Variant of DoUnassign: nothing is published or saved when no source was removed
DoUnassignQuiet(opName, controlType, controlId, source) ==
    LET c == UnassignSource(config, controlType, controlId, source)
    IN /\ config' = c
       /\ Rules' \in (IF c = config THEN {Rules} ELSE Compilations(c))
       /\ saveDebouncer' = (saveDebouncer \/ c # config)
       /\ lastOp' = [BlankOp(opName) EXCEPT
                       !.controlType = controlType, !.controlId = controlId,
                       !.source = source,
                       !.notified = IF c = config THEN <<>> ELSE <<"source.unassigned">>]

\* ConfigManager.UnassignSource with its "source.unassigned" subscriber
DoUnassign(opName, controlType, controlId, source) ==
    /\ config' = UnassignSource(config, controlType, controlId, source)
    /\ Rules' \in Compilations(config')
    /\ saveDebouncer' = TRUE
    /\ lastOp' = [BlankOp(opName) EXCEPT
                    !.controlType = controlType, !.controlId = controlId,
                    !.source = source, !.notified = <<"source.unassigned">>]

\* handleWebSocket, "assignControl"
AssignControlMsg(controlType, controlId, source) ==
    /\ pc = "running"
    /\ ops < MaxOps
    /\ ops' = ops + 1
    /\ DoAssign("AssignSource", controlType, controlId, source)
    /\ UNCHANGED <<pc, file, backup, sweep, mig, saved, loaded, saveMutex, at, header, matched,
                   migrations, liveStreams, resolved, tmp, prevStateHash, clients, writes>>

\* handleWebSocket, "unassignControl"
UnassignControlMsg(controlType, controlId, source) ==
    /\ pc = "running"
    /\ ops < MaxOps
    /\ ops' = ops + 1
    /\ DoUnassign("UnassignSource", controlType, controlId, source)
    /\ UNCHANGED <<pc, file, backup, sweep, mig, saved, loaded, saveMutex, at, header, matched,
                   migrations, liveStreams, resolved, tmp, prevStateHash, clients, writes>>

----------------------------------------------------------------------------
(* Hardware events *)

\* Variant of doActions: a rule's zero MaxValue is not replaced by 0x7f
RECURSIVE doActionsNoDefault(_, _)
doActionsNoDefault(rules, value) ==
    IF rules = <<>> THEN <<>>
    ELSE LET rule == Head(rules)
         IN [i \in DOMAIN rule.Actions |->
                VolumeCall(rule.Actions[i].Target[1], value,
                           Uint8(rule.MidiMessage.MaxValue - rule.MidiMessage.MinValue))]
            \o doActionsNoDefault(Tail(rules), value)

\* doActions for the matched rules: one ProcessVolumeAction call per SetVolume action
RECURSIVE doActions(_, _)
doActions(rules, value) ==
    IF rules = <<>> THEN <<>>
    ELSE LET rule == Head(rules)
             minValue == rule.MidiMessage.MinValue
             maxValue == IF rule.MidiMessage.MaxValue # 0
                         THEN rule.MidiMessage.MaxValue ELSE 127
         IN [i \in DOMAIN rule.Actions |->
                VolumeCall(rule.Actions[i].Target[1], value, Uint8(maxValue - minValue))]
            \o doActions(Tail(rules), value)

\* the percentage the handler computes: int((float64(ccValue) / 127.0) * 100.0)
Percent(ccValue) == (ccValue * 100) \div 127

\* Variant of ControlChangeMsg: the value is stored only when a rule matched
ControlChangeMsgMatched(channel, controller, ccValue) ==
    LET rules == SelectSeq(Rules, LAMBDA rule :
                    /\ rule.MidiMessage.Type = ControlChange
                    /\ rule.MidiMessage.Channel = channel
                    /\ rule.MidiMessage.Controller = controller)
        value == Percent(ccValue)
        isSlider == controller >= 0 /\ controller <= 7 /\ rules # <<>>
        isKnob == controller >= 16 /\ controller <= 23 /\ rules # <<>>
        controlType == IF isSlider THEN "slider" ELSE IF isKnob THEN "knob" ELSE ""
        controlId == IF isSlider THEN SliderId(controller + 1)
                     ELSE IF isKnob THEN KnobId(controller - 16 + 1) ELSE <<>>
    IN /\ pc = "running"
       /\ ops < MaxOps
       /\ ops' = ops + 1
       /\ config' = IF isSlider \/ isKnob
                    THEN UpdateControlValue(config, controlType, controlId, value)
                    ELSE config
       /\ saveDebouncer' = (saveDebouncer \/ isSlider \/ isKnob)
       /\ lastOp' = [BlankOp("ControlChange") EXCEPT
                        !.controlType = controlType, !.controlId = controlId,
                        !.channel = channel, !.controller = controller,
                        !.value = ccValue,
                        !.notified = IF isSlider \/ isKnob
                                     THEN <<"control.value.updated">> ELSE <<>>,
                        !.applied = doActions(rules, ccValue)]
       /\ UNCHANGED <<pc, file, backup, Rules, sweep, mig, saved, loaded, saveMutex, at, header,
                      matched, migrations, liveStreams, resolved, tmp, prevStateHash, clients,
                      writes>>

\* MidiClient.Run, the ControlChange case of the message handler
ControlChangeMsg(channel, controller, ccValue) ==
    LET rules == SelectSeq(Rules, LAMBDA rule :
                    /\ rule.MidiMessage.Type = ControlChange
                    /\ rule.MidiMessage.Channel = channel
                    /\ rule.MidiMessage.Controller = controller)
        value == Percent(ccValue)
        isSlider == controller >= 0 /\ controller <= 7
        isKnob == controller >= 16 /\ controller <= 23
        controlType == IF isSlider THEN "slider" ELSE IF isKnob THEN "knob" ELSE ""
        controlId == IF isSlider THEN SliderId(controller + 1)
                     ELSE IF isKnob THEN KnobId(controller - 16 + 1) ELSE <<>>
    IN /\ pc = "running"
       /\ ops < MaxOps
       /\ ops' = ops + 1
       /\ config' = IF isSlider \/ isKnob
                    THEN UpdateControlValue(config, controlType, controlId, value)
                    ELSE config
       /\ saveDebouncer' = (saveDebouncer \/ isSlider \/ isKnob)
       /\ lastOp' = [BlankOp("ControlChange") EXCEPT
                        !.controlType = controlType, !.controlId = controlId,
                        !.channel = channel, !.controller = controller,
                        !.value = ccValue,
                        !.notified = IF isSlider \/ isKnob
                                     THEN <<"control.value.updated">> ELSE <<>>,
                        !.applied = doActions(rules, ccValue)]
       /\ UNCHANGED <<pc, file, backup, Rules, sweep, mig, saved, loaded, saveMutex, at, header,
                      matched, migrations, liveStreams, resolved, tmp, prevStateHash, clients,
                      writes>>

\* MidiClient.Run, the NoteOn / NoteOff case of the message handler
NoteMsg(channel, note, velocity) ==
    LET rules == SelectSeq(Rules, LAMBDA rule :
                    /\ rule.MidiMessage.Type = Note
                    /\ rule.MidiMessage.Channel = channel
                    /\ rule.MidiMessage.Note = note)
    IN /\ pc = "running"
       /\ ops < MaxOps
       /\ ops' = ops + 1
       /\ lastOp' = [BlankOp("Note") EXCEPT
                        !.channel = channel, !.controller = note, !.value = velocity,
                        !.applied = doActions(rules, velocity)]
       /\ UNCHANGED <<pc, file, backup, config, Rules, saveDebouncer, sweep, mig, saved, loaded,
                      saveMutex, at, header, matched, migrations, liveStreams, resolved, tmp,
                      prevStateHash, clients, writes>>

\* MidiClient.Run, the ProgramChange case of the message handler
ProgramChangeMsg(channel, program) ==
    LET rules == SelectSeq(Rules, LAMBDA rule :
                    /\ rule.MidiMessage.Type = ProgramChange
                    /\ rule.MidiMessage.Channel = channel
                    /\ rule.MidiMessage.Program = program)
    IN /\ pc = "running"
       /\ ops < MaxOps
       /\ ops' = ops + 1
       /\ lastOp' = [BlankOp("ProgramChange") EXCEPT
                        !.channel = channel, !.controller = program,
                        !.applied = doActions(rules, 127)]
       /\ UNCHANGED <<pc, file, backup, config, Rules, saveDebouncer, sweep, mig, saved, loaded,
                      saveMutex, at, header, matched, migrations, liveStreams, resolved, tmp,
                      prevStateHash, clients, writes>>

----------------------------------------------------------------------------
(* The startup sweep: triggerStartupVolumeActions *)

hasSources(c, key) ==
    /\ key[2] \in DOMAIN ControlsOf(c, key[1])
    /\ Len(ControlsOf(c, key[1])[key[2]].Sources) > 0

\* the sweep reaches a control that has sources and takes its list of sources;
\* the sliders are visited before the knobs, each map in an unspecified order
SweepVisit(key) ==
    /\ pc = "running"
    /\ sweep.active
    /\ ~mig.active
    /\ key \in sweep.todo
    /\ hasSources(config, key)
    /\ key[1] = "knob" => \A k \in sweep.todo : k[1] = "slider" => ~hasSources(config, k)
    /\ sweep' = [sweep EXCEPT !.todo = @ \ {key}]
    /\ mig' = [active |-> TRUE, controlType |-> key[1], controlId |-> key[2],
               rest |-> ControlsOf(config, key[1])[key[2]].Sources, pending |-> <<>>]
    /\ lastOp' = [BlankOp("SweepVisit") EXCEPT !.controlType = key[1], !.controlId = key[2]]
    /\ UNCHANGED <<pc, file, backup, config, Rules, saveDebouncer, ops, saved, loaded,
                   saveMutex, at, header, matched, migrations, liveStreams, resolved, tmp,
                   prevStateHash, clients, writes>>

\* the control's list of sources is exhausted
afterSource(m) ==
    IF Len(m.rest) <= 1 /\ m.pending = <<>> THEN NoMig
    ELSE m

\* the sweep handles the next source of the control it is visiting: a legacy source
\* with a live stream that carries a binary name is migrated, starting with
\* MigrateSourceBinaryName's UnassignSource; any other source gets its volume applied
SweepSource ==
    /\ pc = "running"
    /\ mig.active
    /\ mig.pending = <<>>
    /\ mig.rest # <<>>
    /\ LET source == Head(mig.rest)
           found == SmartMatchStreams(source.Type, source.Name)
           control == ControlsOf(config, mig.controlType)[mig.controlId]
       IN IF source.BinaryName = "" /\ found.migrationStream # Nil
             /\ Len(found.matchedStreams) > 0
          THEN /\ DoUnassign("MigrateUnassign", mig.controlType, mig.controlId,
                             Source(source.Type, source.Name, ""))
               /\ mig' = [mig EXCEPT !.pending =
                            <<Source(source.Type, source.Name,
                                     found.migrationStream[1].BinaryName)>>]
               /\ migrations' = migrations \cup
                    {<<mig.controlType, mig.controlId, Source(source.Type, source.Name, "")>>}
          ELSE /\ lastOp' = [BlankOp("SweepApply") EXCEPT
                                !.controlType = mig.controlType,
                                !.controlId = mig.controlId,
                                !.source = source,
                                !.applied = <<VolumeCall(TypedTarget(source)[1],
                                                         control.Value, 100)>>]
               /\ mig' = afterSource([mig EXCEPT !.rest = Tail(@)])
               /\ UNCHANGED <<config, Rules, saveDebouncer, migrations>>
    /\ UNCHANGED <<pc, file, backup, sweep, ops, saved, loaded, saveMutex, at, header, matched,
                   liveStreams, resolved, tmp, prevStateHash, clients, writes>>

\* Variant of MigrateAssign: the sweep does not move on to the control's next source
MigrateAssignNoAdvance ==
    /\ pc = "running"
    /\ mig.active
    /\ mig.pending # <<>>
    /\ DoAssign("MigrateAssign", mig.controlType, mig.controlId, mig.pending[1])
    /\ mig' = [mig EXCEPT !.pending = <<>>]
    /\ UNCHANGED <<pc, file, backup, sweep, ops, saved, loaded, saveMutex, at, header, matched,
                   migrations, liveStreams, resolved, tmp, prevStateHash, clients, writes>>

\* MigrateSourceBinaryName's AssignSource of the source with its binary name
MigrateAssign ==
    /\ pc = "running"
    /\ mig.active
    /\ mig.pending # <<>>
    /\ DoAssign("MigrateAssign", mig.controlType, mig.controlId, mig.pending[1])
    /\ mig' = afterSource([mig EXCEPT !.pending = <<>>, !.rest = Tail(@)])
    /\ UNCHANGED <<pc, file, backup, sweep, ops, saved, loaded, saveMutex, at, header, matched,
                   migrations, liveStreams, resolved, tmp, prevStateHash, clients, writes>>

\* the sweep returns: no control that is left has sources
SweepEnd ==
    /\ pc = "running"
    /\ sweep.active
    /\ ~mig.active
    /\ \A key \in sweep.todo : ~hasSources(config, key)
    /\ sweep' = NoSweep
    /\ lastOp' = BlankOp("SweepEnd")
    /\ UNCHANGED <<pc, file, backup, config, Rules, saveDebouncer, mig, ops, saved, loaded,
                   saveMutex, at, header, matched, migrations, liveStreams, resolved, tmp,
                   prevStateHash, clients, writes>>

----------------------------------------------------------------------------
(* The handlers goroutine by goroutine: who holds saveMutex while the
   configuration is read and written *)

\* the goroutines that read the configuration through GetConfig: the startup sweep
\* and buildUIStateMessage for a new websocket connection
Readers == {"main", "ws"}

\* the goroutines that call UpdateControlValue: MidiClient.Run and handleWebSocket
Writers == {"midi", "ws"}

\* the values a goroutine passes to UpdateControlValue
WriterValues(g) ==
    IF g = "midi" THEN {Percent(ccValue) : ccValue \in CCValues} ELSE UIValues

\* GetConfig returns the pointer without taking saveMutex and the caller starts
\* to range over the maps behind it
GetConfigRead(g) ==
    /\ pc = "running"
    /\ at[g] = Idle
    /\ at' = [at EXCEPT ![g].pc = "reading"]
    /\ UNCHANGED <<pc, file, backup, config, Rules, saveDebouncer, sweep, mig, ops, lastOp,
                   saved, loaded, saveMutex, header, matched, migrations, liveStreams, resolved,
                   tmp, prevStateHash, clients, writes>>

\* the caller of GetConfig has finished with the configuration
GetConfigDone(g) ==
    /\ at[g].pc = "reading"
    /\ at' = [at EXCEPT ![g] = Idle]
    /\ UNCHANGED <<pc, file, backup, config, Rules, saveDebouncer, sweep, mig, ops, lastOp,
                   saved, loaded, saveMutex, header, matched, migrations, liveStreams, resolved,
                   tmp, prevStateHash, clients, writes>>

\* UpdateControlValue: cm.saveMutex.Lock()
UpdateControlValueLock(g, value) ==
    /\ pc = "running"
    /\ at[g] = Idle
    /\ saveMutex = Nil
    /\ saveMutex' = <<g>>
    /\ at' = [at EXCEPT ![g] = [pc |-> "locked", value |-> value]]
    /\ UNCHANGED <<pc, file, backup, config, Rules, saveDebouncer, sweep, mig, ops, lastOp,
                   saved, loaded, header, matched, migrations, liveStreams, resolved, tmp,
                   prevStateHash, clients, writes>>

\* UpdateControlValue: the write to the map, Notify, SaveWithDebounce and the
\* deferred Unlock
UpdateControlValueUnlock(g) ==
    /\ at[g].pc = "locked"
    /\ saveMutex = <<g>>
    /\ config' = UpdateControlValue(config, "slider", SliderId(1), at[g].value)
    /\ saveDebouncer' = TRUE
    /\ saveMutex' = Nil
    /\ at' = [at EXCEPT ![g] = Idle]
    /\ UNCHANGED <<pc, file, backup, Rules, sweep, mig, ops, lastOp, saved, loaded, header,
                   matched, migrations, liveStreams, resolved, tmp, prevStateHash, clients,
                   writes>>

\* the debounce timer fires and SaveNow takes saveMutex
SaveNowLock ==
    /\ pc = "running"
    /\ saveDebouncer
    /\ at["timer"] = Idle
    /\ saveMutex = Nil
    /\ saveMutex' = <<"timer">>
    /\ saveDebouncer' = FALSE
    /\ at' = [at EXCEPT !["timer"].pc = "saving"]
    /\ UNCHANGED <<pc, file, backup, config, Rules, sweep, mig, ops, lastOp, saved, loaded,
                   header, matched, migrations, liveStreams, resolved, tmp, prevStateHash,
                   clients, writes>>

\* SaveNow marshals the configuration, writes the file and unlocks
SaveNowUnlock ==
    /\ at["timer"].pc = "saving"
    /\ saveMutex = <<"timer">>
    /\ file' = Yaml(MarshalConfig(config))
    /\ saved' = <<config>>
    /\ saveMutex' = Nil
    /\ at' = [at EXCEPT !["timer"] = Idle]
    /\ UNCHANGED <<pc, backup, config, Rules, saveDebouncer, sweep, mig, ops, lastOp, loaded,
                   header, matched, migrations, liveStreams, resolved, tmp, prevStateHash,
                   clients, writes>>

\* the state Run leaves when it found no configuration file
InitLock ==
    /\ pc = "running"
    /\ file = Yaml(MarshalConfig(GetDefaultConfig))
    /\ backup = Missing
    /\ config = GetDefaultConfig
    /\ Rules \in Compilations(GetDefaultConfig)
    /\ saveDebouncer = FALSE
    /\ sweep = [active |-> TRUE,
                todo |-> {<<"slider", id>> : id \in DOMAIN GetDefaultConfig.Controls.Sliders}
                         \cup {<<"knob", id>> : id \in DOMAIN GetDefaultConfig.Controls.Knobs}]
    /\ mig = NoMig
    /\ ops = 0
    /\ lastOp = BlankOp("Run")
    /\ saved = Nil
    /\ loaded = GetDefaultConfig
    /\ saveMutex = Nil
    /\ at = [g \in Goroutines |-> Idle]
    /\ header = HeaderOf(<<>>)
    /\ matched = Nil
    /\ migrations = {}
    /\ liveStreams = ServerStreams
    /\ resolved = Nil
    /\ tmp = Missing
    /\ prevStateHash = Nil
    /\ clients = EmptyMap
    /\ writes = 0

NextLock ==
    \/ \E g \in Readers : GetConfigRead(g)
    \/ \E g \in Readers : GetConfigDone(g)
    \/ \E g \in Writers : \E value \in WriterValues(g) : UpdateControlValueLock(g, value)
    \/ \E g \in Writers : UpdateControlValueUnlock(g)
    \/ SaveNowLock
    \/ SaveNowUnlock

SpecLock == InitLock /\ [][NextLock]_vars

----------------------------------------------------------------------------
(* MidiClient.Rules word by word: UpdateRules stores the slice while
   MidiClient.Run filters it, with no synchronisation between the two *)

\* what lies past the end of an array
Beyond == [beyond |-> TRUE]

\* the rules a range over a slice with header h visits
View(h) == [i \in 1..h.len |-> IF i <= Len(h.ptr) THEN h.ptr[i] ELSE Beyond]

\* the source the websocket goroutine assigns and unassigns
SwapSource == Source("PlaybackStream", "Music", "mpv")

\* AssignSource up to the subscriber's call of UpdateRules: the store is changed
\* under saveMutex and the new rules are compiled
AssignSourceCompile(controlType, controlId, source) ==
    /\ pc = "running"
    /\ at["ws"] = Idle
    /\ saveMutex = Nil
    /\ LET r == AssignSource(config, controlType, controlId, source)
       IN /\ ~r.returned
          /\ config' = r.config
          /\ \E newRules \in Compilations(r.config) :
                at' = [at EXCEPT !["ws"] = [pc |-> "UpdateRules", value |-> newRules]]
    /\ saveMutex' = <<"ws">>
    /\ UNCHANGED <<pc, file, backup, Rules, saveDebouncer, sweep, mig, ops, lastOp, saved,
                   loaded, header, matched, migrations, liveStreams, resolved, tmp,
                   prevStateHash, clients, writes>>

\* UnassignSource up to the subscriber's call of UpdateRules
UnassignSourceCompile(controlType, controlId, source) ==
    /\ pc = "running"
    /\ at["ws"] = Idle
    /\ saveMutex = Nil
    /\ config' = UnassignSource(config, controlType, controlId, source)
    /\ \E newRules \in Compilations(config') :
            at' = [at EXCEPT !["ws"] = [pc |-> "UpdateRules", value |-> newRules]]
    /\ saveMutex' = <<"ws">>
    /\ UNCHANGED <<pc, file, backup, Rules, saveDebouncer, sweep, mig, ops, lastOp, saved,
                   loaded, header, matched, migrations, liveStreams, resolved, tmp,
                   prevStateHash, clients, writes>>

\* client.Rules = rules: the first word of the slice is stored (the build decides
\* which word that is)
UpdateRulesFirstWord(word) ==
    /\ at["ws"].pc = "UpdateRules"
    /\ header' = [header EXCEPT ![word] = HeaderOf(at["ws"].value)[word]]
    /\ at' = [at EXCEPT !["ws"].pc = word]
    /\ UNCHANGED <<pc, file, backup, config, Rules, saveDebouncer, sweep, mig, ops, lastOp,
                   saved, loaded, saveMutex, matched, migrations, liveStreams, resolved, tmp,
                   prevStateHash, clients, writes>>

\* client.Rules = rules: the other word is stored; UpdateRules returns, the store
\* schedules the save and unlocks
UpdateRulesSecondWord ==
    /\ at["ws"].pc \in {"ptr", "len"}
    /\ header' = HeaderOf(at["ws"].value)
    /\ Rules' = at["ws"].value
    /\ saveDebouncer' = TRUE
    /\ saveMutex' = Nil
    /\ at' = [at EXCEPT !["ws"] = Idle]
    /\ UNCHANGED <<pc, file, backup, config, sweep, mig, ops, lastOp, saved, loaded, matched,
                   migrations, liveStreams, resolved, tmp, prevStateHash, clients, writes>>

\* MidiClient.Run receives a message and filters client.Rules
FilterRules ==
    /\ pc = "running"
    /\ matched' = <<View(header)>>
    /\ UNCHANGED <<pc, file, backup, config, Rules, saveDebouncer, sweep, mig, ops, lastOp,
                   saved, loaded, saveMutex, at, header, migrations, liveStreams, resolved, tmp,
                   prevStateHash, clients, writes>>

\* MidiClient.Run, client.Rules = device.UpdateRules(client.Rules, sysExChannel, out):
\* the argument is read and the device is queried (the device package is outside
\* these sources; the handler matches on the numbers the compiler set, so the
\* list is taken to come back as it went in)
DeviceUpdateRulesCall ==
    /\ pc = "running"
    /\ at["midi"] = Idle
    /\ at' = [at EXCEPT !["midi"] = [pc |-> "device", value |-> View(header)]]
    /\ UNCHANGED <<pc, file, backup, config, Rules, saveDebouncer, sweep, mig, ops, lastOp,
                   saved, loaded, saveMutex, header, matched, migrations, liveStreams, resolved,
                   tmp, prevStateHash, clients, writes>>

\* the device has answered: the result is stored in client.Rules and Run waits
\* in select {}
DeviceUpdateRulesReturn ==
    /\ at["midi"].pc = "device"
    /\ Rules' = at["midi"].value
    /\ header' = HeaderOf(at["midi"].value)
    /\ at' = [at EXCEPT !["midi"] = [pc |-> "select", value |-> 0]]
    /\ UNCHANGED <<pc, file, backup, config, saveDebouncer, sweep, mig, ops, lastOp, saved,
                   loaded, saveMutex, matched, migrations, liveStreams, resolved, tmp,
                   prevStateHash, clients, writes>>

\* the state Run leaves when it found the new-format file
InitSwap ==
    LET r == Load(NewFormatFile, Missing)
    IN /\ pc = "running"
       /\ file = r.file
       /\ backup = r.backup
       /\ config = r.config
       /\ Rules \in Compilations(r.config)
       /\ saveDebouncer = FALSE
       /\ sweep = [active |-> TRUE,
                   todo |-> {<<"slider", id>> : id \in DOMAIN r.config.Controls.Sliders}
                            \cup {<<"knob", id>> : id \in DOMAIN r.config.Controls.Knobs}]
       /\ mig = NoMig
       /\ ops = 0
       /\ lastOp = BlankOp("Run")
       /\ saved = Nil
       /\ loaded = r.config
       /\ saveMutex = Nil
       /\ at = [g \in Goroutines |-> Idle]
       /\ header = HeaderOf(Rules)
       /\ matched = Nil
       /\ migrations = {}
       /\ liveStreams = ServerStreams
       /\ resolved = Nil
       /\ tmp = Missing
       /\ prevStateHash = Nil
       /\ clients = EmptyMap
       /\ writes = 0

NextSwap ==
    \/ \E key \in UIControls : AssignSourceCompile(key[1], key[2], SwapSource)
    \/ \E key \in UIControls : UnassignSourceCompile(key[1], key[2], SwapSource)
    \/ \E word \in {"ptr", "len"} : UpdateRulesFirstWord(word)
    \/ UpdateRulesSecondWord
    \/ FilterRules
    \/ DeviceUpdateRulesCall
    \/ DeviceUpdateRulesReturn

SpecSwap == InitSwap /\ [][NextSwap]_vars

----------------------------------------------------------------------------
(* Resolution of stream refs against the audio server's streams *)

MaxStreams == 3
MaxRecordStreams == 1

\* the streams the audio server may report
StreamPool ==
    {[Name |-> "Music", BinaryName |-> ""], [Name |-> "Music", BinaryName |-> "mpv"],
     [Name |-> "Music", BinaryName |-> "vlc"], [Name |-> "Game", BinaryName |-> "mpv"]}

StreamLists(n) == UNION {[1..k -> StreamPool] : k \in 0..n}

\* the stream refs that are resolved
StreamTargets ==
    {[Type |-> type, Name |-> name, BinaryName |-> binaryName] :
        type \in {"PlaybackStream", "RecordStream"},
        name \in {"Music", "Absent"},
        binaryName \in {"", "vlc"}}

\* SmartMatchStreams(sourceType, sourceName): the sweep asks whether a live stream
\* can disambiguate a ref
SmartMatchStreamsCall(sourceType, sourceName) ==
    LET target == [Type |-> sourceType, Name |-> sourceName, BinaryName |-> ""]
        r == smartMatchStreams(liveStreams[sourceType], target, Nil)
    IN /\ pc = "running"
       /\ resolved' = [call |-> "SmartMatchStreams", target |-> target,
                       matchedStreams |-> r.matchedStreams,
                       migrationStream |-> r.migrationStream,
                       volumes |-> <<>>]
       /\ UNCHANGED <<pc, file, backup, config, Rules, saveDebouncer, sweep, mig, ops, lastOp,
                      saved, loaded, saveMutex, at, header, matched, migrations, liveStreams,
                      tmp, prevStateHash, clients, writes>>

\* ProcessVolumeAction(action, volumePercent) for a stream target: the matched
\* streams get the volume
ProcessVolumeActionCall(target, value) ==
    LET r == smartMatchStreams(liveStreams[target.Type], target, Nil)
    IN /\ pc = "running"
       /\ resolved' = [call |-> "ProcessVolumeAction", target |-> target,
                       matchedStreams |-> r.matchedStreams,
                       migrationStream |-> r.migrationStream,
                       volumes |-> [i \in DOMAIN r.matchedStreams |-> value]]
       /\ UNCHANGED <<pc, file, backup, config, Rules, saveDebouncer, sweep, mig, ops, lastOp,
                      saved, loaded, saveMutex, at, header, matched, migrations, liveStreams,
                      tmp, prevStateHash, clients, writes>>

\* the four queries of refreshStreams, in the order it makes them
Categories == <<"Sinks", "Sources", "SinkInputs", "SourceOutputs">>

\* refreshStreams on the main goroutine (startup sweep) or the MIDI goroutine
\* (hardware event) when the audio server answers one query with an error:
\* panic(err), which nothing recovers, so the process aborts and the caller gets
\* no streams of any category
RefreshStreamsError(g, category) ==
    /\ pc = "running"
    /\ pc' = "stopped"
    /\ config' = ZeroConfig
    /\ Rules' = <<>>
    /\ saveDebouncer' = FALSE
    /\ loaded' = ZeroConfig
    /\ resolved' = Nil
    /\ lastOp' = [BlankOp("panic") EXCEPT !.controlType = g, !.source = Source(category, "", "")]
    /\ UNCHANGED <<file, backup, sweep, mig, ops, saved, saveMutex, at, header, matched,
                   migrations, liveStreams, tmp, prevStateHash, clients, writes>>

\* the program is running and the audio server reports any streams
InitMatch ==
    /\ pc = "running"
    /\ file = Yaml(MarshalConfig(GetDefaultConfig))
    /\ backup = Missing
    /\ config = GetDefaultConfig
    /\ Rules \in Compilations(GetDefaultConfig)
    /\ saveDebouncer = FALSE
    /\ sweep = NoSweep
    /\ mig = NoMig
    /\ ops = 0
    /\ lastOp = BlankOp("SweepEnd")
    /\ saved = Nil
    /\ loaded = GetDefaultConfig
    /\ saveMutex = Nil
    /\ at = [g \in Goroutines |-> Idle]
    /\ header = HeaderOf(<<>>)
    /\ matched = Nil
    /\ migrations = {}
    /\ liveStreams \in [PlaybackStream : StreamLists(MaxStreams),
                        RecordStream : StreamLists(MaxRecordStreams)]
    /\ resolved = Nil
    /\ tmp = Missing
    /\ prevStateHash = Nil
    /\ clients = EmptyMap
    /\ writes = 0

NextMatch ==
    \/ \E target \in StreamTargets : SmartMatchStreamsCall(target.Type, target.Name)
    \/ \E target \in StreamTargets : ProcessVolumeActionCall(target, 100)
    \/ \E g \in {"main", "midi"}, i \in DOMAIN Categories : RefreshStreamsError(g, Categories[i])

SpecMatch == InitMatch /\ [][NextMatch]_vars

----------------------------------------------------------------------------
(* The hardware-event path and the UI's broadcast loop *)

\* Variant of ControlChangeNotify: the update is sent with a plain channel send,
\* which waits until handleBroadcasts receives
ControlChangeNotifyBlocking(channel, controller, ccValue) ==
    LET rules == SelectSeq(Rules, LAMBDA rule :
                    /\ rule.MidiMessage.Type = ControlChange
                    /\ rule.MidiMessage.Channel = channel
                    /\ rule.MidiMessage.Controller = controller)
        value == Percent(ccValue)
        isSlider == controller >= 0 /\ controller <= 7
        isKnob == controller >= 16 /\ controller <= 23
        controlType == IF isSlider THEN "slider" ELSE IF isKnob THEN "knob" ELSE ""
        controlId == IF isSlider THEN SliderId(controller + 1)
                     ELSE IF isKnob THEN KnobId(controller - 16 + 1) ELSE <<>>
    IN /\ pc = "running"
       /\ (isSlider \/ isKnob) => at["broadcast"] = Idle
       /\ config' = IF isSlider \/ isKnob
                    THEN UpdateControlValue(config, controlType, controlId, value)
                    ELSE config
       /\ at' = IF (isSlider \/ isKnob) /\ at["broadcast"] = Idle
                THEN [at EXCEPT !["broadcast"] =
                        [pc |-> "writing", value |-> <<controlType, controlId, value>>]]
                ELSE at
       /\ saveDebouncer' = (saveDebouncer \/ isSlider \/ isKnob)
       /\ lastOp' = [BlankOp("ControlChange") EXCEPT
                        !.controlType = controlType, !.controlId = controlId,
                        !.channel = channel, !.controller = controller,
                        !.value = ccValue,
                        !.notified = IF isSlider \/ isKnob
                                     THEN <<"control.value.updated">> ELSE <<>>,
                        !.applied = doActions(rules, ccValue)]
       /\ UNCHANGED <<pc, file, backup, Rules, sweep, mig, ops, saved, loaded, saveMutex,
                      header, matched, migrations, liveStreams, resolved, tmp, prevStateHash,
                      clients, writes>>

\* MidiClient.Run, the ControlChange case, with the control.value.updated
\* subscriber: NotifyControlValueUpdate hands the update to handleBroadcasts when
\* that is waiting in its select, and drops it otherwise
ControlChangeNotify(channel, controller, ccValue) ==
    LET rules == SelectSeq(Rules, LAMBDA rule :
                    /\ rule.MidiMessage.Type = ControlChange
                    /\ rule.MidiMessage.Channel = channel
                    /\ rule.MidiMessage.Controller = controller)
        value == Percent(ccValue)
        isSlider == controller >= 0 /\ controller <= 7
        isKnob == controller >= 16 /\ controller <= 23
        controlType == IF isSlider THEN "slider" ELSE IF isKnob THEN "knob" ELSE ""
        controlId == IF isSlider THEN SliderId(controller + 1)
                     ELSE IF isKnob THEN KnobId(controller - 16 + 1) ELSE <<>>
    IN /\ pc = "running"
       /\ config' = IF isSlider \/ isKnob
                    THEN UpdateControlValue(config, controlType, controlId, value)
                    ELSE config
       /\ at' = IF (isSlider \/ isKnob) /\ at["broadcast"] = Idle
                THEN [at EXCEPT !["broadcast"] =
                        [pc |-> "writing", value |-> <<controlType, controlId, value>>]]
                ELSE at
       /\ saveDebouncer' = (saveDebouncer \/ isSlider \/ isKnob)
       /\ lastOp' = [BlankOp("ControlChange") EXCEPT
                        !.controlType = controlType, !.controlId = controlId,
                        !.channel = channel, !.controller = controller,
                        !.value = ccValue,
                        !.notified = IF isSlider \/ isKnob
                                     THEN <<"control.value.updated">> ELSE <<>>,
                        !.applied = doActions(rules, ccValue)]
       /\ UNCHANGED <<pc, file, backup, Rules, sweep, mig, ops, saved, loaded, saveMutex,
                      header, matched, migrations, liveStreams, resolved, tmp, prevStateHash,
                      clients, writes>>

\* handleWebSocket, "updateControlValue", with the control.value.updated subscriber
UpdateControlValueNotify(controlType, controlId, value) ==
    /\ pc = "running"
    /\ config' = UpdateControlValue(config, controlType, controlId, value)
    /\ at' = IF at["broadcast"] = Idle
             THEN [at EXCEPT !["broadcast"] =
                     [pc |-> "writing", value |-> <<controlType, controlId, value>>]]
             ELSE at
    /\ saveDebouncer' = TRUE
    /\ lastOp' = [BlankOp("UpdateControlValue") EXCEPT
                    !.controlType = controlType, !.controlId = controlId,
                    !.value = value, !.notified = <<"control.value.updated">>]
    /\ UNCHANGED <<pc, file, backup, Rules, sweep, mig, ops, saved, loaded, saveMutex, header,
                   matched, migrations, liveStreams, resolved, tmp, prevStateHash, clients,
                   writes>>

\* handleBroadcasts has written the update to every client and selects again; a
\* stalled browser socket keeps it from getting here
WriteMessageDone ==
    /\ at["broadcast"].pc = "writing"
    /\ at' = [at EXCEPT !["broadcast"] = Idle]
    /\ clients' = [c \in DOMAIN clients |->
                    [clients[c] EXCEPT !.values =
                        MapPut(@, <<at["broadcast"].value[1], at["broadcast"].value[2]>>,
                               at["broadcast"].value[3])]]
    /\ UNCHANGED <<pc, file, backup, config, Rules, saveDebouncer, sweep, mig, ops, lastOp,
                   saved, loaded, saveMutex, header, matched, migrations, liveStreams, resolved,
                   tmp, prevStateHash, writes>>

\* what a "mapping.updated" notification can carry: the map of
\* UpdateMidiDeviceMapping, and a map with the keys of a control value update
ConfigUpdates ==
    {[deviceName |-> "nanoKONTROL2", controlId |-> SliderId(1), target |-> "Music"],
     [type |-> "slider", id |-> SliderId(1), value |-> 50]}

\* NotifyConfigUpdate(update), from the mapping.updated subscriber: the send on
\* configUpdateCh completes when handleBroadcasts is in its select, which then
\* handles the update: for a map with type, id and value it sends the message on
\* s.broadcast, the channel only its own select receives from
NotifyConfigUpdateCall(update) ==
    /\ pc = "running"
    /\ at["broadcast"] = Idle
    /\ at' = IF {"type", "id", "value"} \subseteq DOMAIN update
             THEN [at EXCEPT !["broadcast"] =
                     [pc |-> "sending", value |-> <<update.type, update.id, update.value>>]]
             ELSE at
    /\ lastOp' = [BlankOp("NotifyConfigUpdate") EXCEPT !.notified = <<"mapping.updated">>]
    /\ UNCHANGED <<pc, file, backup, config, Rules, saveDebouncer, sweep, mig, ops, saved,
                   loaded, saveMutex, header, matched, migrations, liveStreams, resolved,
                   tmp, prevStateHash, clients, writes>>

NextNotify ==
    \/ \E event \in CCEvents : ControlChangeNotify(event[1], event[2], event[3])
    \/ \E msg \in UIUpdates : UpdateControlValueNotify(msg[1], msg[2], msg[3])
    \/ WriteMessageDone
    \/ \E update \in ConfigUpdates : NotifyConfigUpdateCall(update)

SpecNotify == InitSwap /\ [][NextNotify]_vars

----------------------------------------------------------------------------
(* The debounced save: time.AfterFunc runs SaveNow on a goroutine of its own once
   the timer has expired, and Timer.Stop does not reach a timer that has expired.
   at["timer"].value counts the expired timers whose SaveNow waits for saveMutex;
   writes counts the writes of the file since the last mutation. *)

\* UpdateControlValue: cm.saveMutex.Lock()
MutationLock(g, value) ==
    /\ pc = "running"
    /\ ops < MaxOps
    /\ ops' = ops + 1
    /\ at[g] = Idle
    /\ saveMutex = Nil
    /\ saveMutex' = <<g>>
    /\ at' = [at EXCEPT ![g] = [pc |-> "locked", value |-> value]]
    /\ UNCHANGED <<pc, file, backup, config, Rules, saveDebouncer, sweep, mig, lastOp, saved,
                   loaded, header, matched, migrations, liveStreams, resolved, tmp,
                   prevStateHash, clients, writes>>

\* Variant of SaveWithDebounceUnlock: a pending timer is stopped and no new one
\* is started
SaveWithDebounceNoRearm(g) ==
    /\ at[g].pc = "locked"
    /\ saveMutex = <<g>>
    /\ config' = UpdateControlValue(config, "slider", SliderId(1), at[g].value)
    /\ saveDebouncer' = ~saveDebouncer
    /\ writes' = 0
    /\ saveMutex' = Nil
    /\ at' = [at EXCEPT ![g] = Idle]
    /\ UNCHANGED <<pc, file, backup, Rules, sweep, mig, ops, lastOp, saved, loaded, header,
                   matched, migrations, liveStreams, resolved, tmp, prevStateHash, clients>>

\* UpdateControlValue: the write to the map, Notify, SaveWithDebounce (Stop the
\* pending timer, start a new one) and the deferred Unlock
SaveWithDebounceUnlock(g) ==
    /\ at[g].pc = "locked"
    /\ saveMutex = <<g>>
    /\ config' = UpdateControlValue(config, "slider", SliderId(1), at[g].value)
    /\ saveDebouncer' = TRUE
    /\ writes' = 0
    /\ saveMutex' = Nil
    /\ at' = [at EXCEPT ![g] = Idle]
    /\ UNCHANGED <<pc, file, backup, Rules, sweep, mig, ops, lastOp, saved, loaded, header,
                   matched, migrations, liveStreams, resolved, tmp, prevStateHash, clients>>

\* two seconds have passed since the timer was started: it expires and its
\* goroutine is about to call SaveNow
TimerFire ==
    /\ pc = "running"
    /\ saveDebouncer
    /\ saveDebouncer' = FALSE
    /\ at' = [at EXCEPT !["timer"].value = @ + 1]
    /\ UNCHANGED <<pc, file, backup, config, Rules, sweep, mig, ops, lastOp, saved, loaded,
                   saveMutex, header, matched, migrations, liveStreams, resolved, tmp,
                   prevStateHash, clients, writes>>

\* SaveNow: cm.saveMutex.Lock()
SaveNowLockFired ==
    /\ at["timer"].pc = "idle"
    /\ at["timer"].value > 0
    /\ saveMutex = Nil
    /\ saveMutex' = <<"timer">>
    /\ at' = [at EXCEPT !["timer"] = [pc |-> "saving", value |-> @.value - 1]]
    /\ UNCHANGED <<pc, file, backup, config, Rules, saveDebouncer, sweep, mig, ops, lastOp,
                   saved, loaded, header, matched, migrations, liveStreams, resolved, tmp,
                   prevStateHash, clients, writes>>

\* SaveNow marshals the configuration, writes the temporary file, renames it
\* and unlocks
SaveNowWrite ==
    /\ at["timer"].pc = "saving"
    /\ saveMutex = <<"timer">>
    /\ file' = Yaml(MarshalConfig(config))
    /\ saved' = <<config>>
    /\ writes' = writes + 1
    /\ saveMutex' = Nil
    /\ at' = [at EXCEPT !["timer"].pc = "idle"]
    /\ UNCHANGED <<pc, backup, config, Rules, saveDebouncer, sweep, mig, ops, lastOp, loaded,
                   header, matched, migrations, liveStreams, resolved, tmp, prevStateHash,
                   clients>>

NextDebounce ==
    \/ \E g \in Writers : \E value \in WriterValues(g) : MutationLock(g, value)
    \/ \E g \in Writers : SaveWithDebounceUnlock(g)
    \/ TimerFire
    \/ SaveNowLockFired
    \/ SaveNowWrite

SpecDebounce == InitLock /\ [][NextDebounce]_vars

\* the timer expires after two seconds, a goroutine that can take the mutex takes
\* it, and a critical section ends
SpecDebounceFair ==
    /\ SpecDebounce
    /\ WF_vars(TimerFire)
    /\ WF_vars(SaveNowLockFired)
    /\ WF_vars(SaveNowWrite)
    /\ \A g \in Writers : WF_vars(SaveWithDebounceUnlock(g))

----------------------------------------------------------------------------
(* The writes of the configuration path, step by step, and a crash at any step *)

\* the content of a path between the open of os.WriteFile (O_TRUNC) and its last
\* write: a proper prefix of the document
Partial(doc) == [kind |-> "partial", doc |-> doc]

\* Load, legacy file: os.Rename(configPath, backupPath)
LoadRename ==
    LET r == Load(file, backup)
    IN /\ pc = "stopped"
       /\ at["main"] = Idle
       /\ ~r.err
       /\ r.backup # backup
       /\ backup' = file
       /\ file' = Missing
       /\ at' = [at EXCEPT !["main"] = [pc |-> "renamed", value |-> r]]
       /\ UNCHANGED <<pc, config, Rules, saveDebouncer, sweep, mig, ops, lastOp, saved, loaded,
                      saveMutex, header, matched, migrations, liveStreams, resolved, tmp,
                      prevStateHash, clients, writes>>

\* Load, missing file or legacy file after the rename: os.WriteFile(configPath,
\* data, 0644) has opened the path
LoadWriteFileOpen ==
    LET r == IF at["main"].pc = "renamed" THEN at["main"].value ELSE Load(file, backup)
    IN /\ pc = "stopped"
       /\ \/ at["main"].pc = "renamed"
          \/ at["main"] = Idle /\ file = Missing
       /\ file' = Partial(r.file.doc)
       /\ at' = [at EXCEPT !["main"] = [pc |-> "writing", value |-> r]]
       /\ UNCHANGED <<pc, backup, config, Rules, saveDebouncer, sweep, mig, ops, lastOp, saved,
                      loaded, saveMutex, header, matched, migrations, liveStreams, resolved,
                      tmp, prevStateHash, clients, writes>>

\* os.WriteFile has written the document; Load returns and Run goes on as in Run
LoadWriteFileClose ==
    LET r == at["main"].value
    IN /\ pc = "stopped"
       /\ at["main"].pc = "writing"
       /\ file' = r.file
       /\ at' = [at EXCEPT !["main"] = Idle]
       /\ pc' = "running"
       /\ config' = r.config
       /\ Rules' \in Compilations(r.config)
       /\ sweep' = [active |-> TRUE,
                    todo |-> {<<"slider", id>> : id \in DOMAIN r.config.Controls.Sliders}
                             \cup {<<"knob", id>> : id \in DOMAIN r.config.Controls.Knobs}]
       /\ lastOp' = BlankOp("Run")
       /\ loaded' = r.config
       /\ UNCHANGED <<backup, saveDebouncer, mig, ops, saved, saveMutex, header, matched,
                      migrations, liveStreams, resolved, tmp, prevStateHash, clients, writes>>

\* Run on a file that Load does not rewrite
RunNoWrite ==
    /\ at["main"] = Idle
    /\ Load(file, backup).file = file
    /\ Run

\* SaveNow: the lock is taken, the configuration marshalled and
\* os.WriteFile(tempPath, data, 0644) has opened the temporary path
SaveNowWriteFileOpen ==
    /\ pc = "running"
    /\ saveDebouncer
    /\ at["timer"] = Idle
    /\ saveMutex = Nil
    /\ saveMutex' = <<"timer">>
    /\ saveDebouncer' = FALSE
    /\ tmp' = Partial(MarshalConfig(config))
    /\ at' = [at EXCEPT !["timer"] = [pc |-> "writing", value |-> config]]
    /\ UNCHANGED <<pc, file, backup, config, Rules, sweep, mig, ops, lastOp, saved, loaded,
                   header, matched, migrations, liveStreams, resolved, prevStateHash, clients,
                   writes>>

\* os.WriteFile has written the temporary file
SaveNowWriteFileClose ==
    /\ pc = "running"
    /\ at["timer"].pc = "writing"
    /\ tmp' = Yaml(MarshalConfig(at["timer"].value))
    /\ at' = [at EXCEPT !["timer"].pc = "written"]
    /\ UNCHANGED <<pc, file, backup, config, Rules, saveDebouncer, sweep, mig, ops, lastOp,
                   saved, loaded, saveMutex, header, matched, migrations, liveStreams, resolved,
                   prevStateHash, clients, writes>>

\* os.Rename(tempPath, cm.configPath), then the deferred unlock
SaveNowRename ==
    /\ pc = "running"
    /\ at["timer"].pc = "written"
    /\ file' = tmp
    /\ tmp' = Missing
    /\ saved' = <<at["timer"].value>>
    /\ saveMutex' = Nil
    /\ lastOp' = BlankOp("SaveNow")
    /\ at' = [at EXCEPT !["timer"] = Idle]
    /\ UNCHANGED <<pc, backup, config, Rules, saveDebouncer, sweep, mig, ops, loaded, header,
                   matched, migrations, liveStreams, resolved, prevStateHash, clients, writes>>

\* a mutation of the store, under saveMutex
UpdateControlValueLocked(controlType, controlId, value) ==
    /\ saveMutex = Nil
    /\ UpdateControlValueMsg(controlType, controlId, value)

\* the process is killed or the machine loses power: the files stay as they are
Crash ==
    /\ pc = "running" \/ at["main"] # Idle
    /\ pc' = "crashed"
    /\ lastOp' = BlankOp("Crash")
    /\ UNCHANGED <<file, backup, config, Rules, saveDebouncer, sweep, mig, ops, saved, loaded,
                   saveMutex, at, header, matched, migrations, liveStreams, resolved, tmp,
                   prevStateHash, clients, writes>>

NextWrite ==
    \/ LoadRename
    \/ LoadWriteFileOpen
    \/ LoadWriteFileClose
    \/ RunNoWrite
    \/ SaveNowWriteFileOpen
    \/ SaveNowWriteFileClose
    \/ SaveNowRename
    \/ \E msg \in UIUpdates : UpdateControlValueLocked(msg[1], msg[2], msg[3])
    \/ Crash

SpecWrite == Init /\ [][NextWrite]_vars

----------------------------------------------------------------------------
(* The UI's view: connected clients, the structural poll of monitorAudioSources
   and the broadcast loop *)

\* the browser connections
MaxClients == 2
ClientIds == 1..MaxClients

\* strings.ToLower on a source type
ToLowerType(t) ==
    CASE t = "PlaybackStream" -> "playbackstream" [] t = "RecordStream" -> "recordstream"
      [] t = "OutputDevice" -> "outputdevice" [] t = "InputDevice" -> "inputdevice"
      [] OTHER -> t

\* GetAudioSources: the playback streams, then the record streams; a stream's ID
\* is its FullName, which is unique
GetAudioSources(streams) ==
    [i \in DOMAIN streams.PlaybackStream |->
        [ID |-> <<"PlaybackStream", i>>, Name |-> streams.PlaybackStream[i].Name,
         Type |-> "PlaybackStream"]]
    \o [i \in DOMAIN streams.RecordStream |->
        [ID |-> <<"RecordStream", i>>, Name |-> streams.RecordStream[i].Name,
         Type |-> "RecordStream"]]

\* buildUIStateMessage, the id sent for a source of a control: that of the first
\* audio source of the same type (lower case) and name, or the virtual id
\* "type:name"
sourceIdOf(source, sources) ==
    LET hits == {i \in DOMAIN sources :
                    /\ ToLowerType(sources[i].Type) = ToLowerType(source.Type)
                    /\ sources[i].Name = source.Name}
    IN IF hits = {}
       THEN <<source.Type, ":", source.Name>>
       ELSE sources[CHOOSE i \in hits : \A j \in hits : i <= j].ID

sourceIds(control, sources) ==
    [i \in DOMAIN control.Sources |-> sourceIdOf(control.Sources[i], sources)]

\* buildUIStateMessage(includeControlValues)
buildUIStateMessage(c, streams, includeControlValues) ==
    LET sources == GetAudioSources(streams)
        sliderAssignments == [id \in DOMAIN c.Controls.Sliders |->
                                sourceIds(c.Controls.Sliders[id], sources)]
        knobAssignments == [id \in DOMAIN c.Controls.Knobs |->
                                sourceIds(c.Controls.Knobs[id], sources)]
    IN [type |-> "audioSourcesUpdate", sources |-> sources,
        sliderAssignments |-> sliderAssignments, knobAssignments |-> knobAssignments,
        values |-> IF includeControlValues
                   THEN <<[sliderValues |-> [id \in DOMAIN c.Controls.Sliders |->
                                                c.Controls.Sliders[id].Value],
                           knobValues |-> [id \in DOMAIN c.Controls.Knobs |->
                                                c.Controls.Knobs[id].Value]]>>
                   ELSE Nil]

\* what a client has been sent: the assignments of the last audioSourcesUpdate and,
\* for each control, the last value a message carried
ViewOf(message) ==
    [sliderAssignments |-> message.sliderAssignments,
     knobAssignments |-> message.knobAssignments,
     values |-> [b \in {<<"slider", id>> : id \in DOMAIN message.values[1].sliderValues}
                       \cup {<<"knob", id>> : id \in DOMAIN message.values[1].knobValues} |->
                    IF b[1] = "slider" THEN message.values[1].sliderValues[b[2]]
                    ELSE message.values[1].knobValues[b[2]]]]

\* the hardware events of this specification
UIEvents == {<<0, 0, 1>>, <<0, 0, 127>>}

\* a hardware control-change event on a tracked controller, with the
\* control.value.updated subscriber, as ControlChangeNotify
ControlChangeUI(channel, controller, ccValue) ==
    LET rules == SelectSeq(Rules, LAMBDA rule :
                    /\ rule.MidiMessage.Type = ControlChange
                    /\ rule.MidiMessage.Channel = channel
                    /\ rule.MidiMessage.Controller = controller)
        value == Percent(ccValue)
        controlId == SliderId(controller + 1)
    IN /\ pc = "running"
       /\ controller \in 0..7
       /\ ops < MaxOps
       /\ ops' = ops + 1
       /\ config' = UpdateControlValue(config, "slider", controlId, value)
       /\ at' = IF at["broadcast"] = Idle
                THEN [at EXCEPT !["broadcast"] =
                        [pc |-> "writing", value |-> <<"slider", controlId, value>>]]
                ELSE at
       /\ saveDebouncer' = TRUE
       /\ lastOp' = [BlankOp("ControlChange") EXCEPT
                        !.controlType = "slider", !.controlId = controlId,
                        !.channel = channel, !.controller = controller,
                        !.value = ccValue, !.notified = <<"control.value.updated">>,
                        !.applied = doActions(rules, ccValue)]
       /\ UNCHANGED <<pc, file, backup, Rules, sweep, mig, saved, loaded, saveMutex, header,
                      matched, migrations, liveStreams, resolved, tmp, prevStateHash, clients,
                      writes>>

\* Variant of Tick: the message is handed over only if handleBroadcasts is
\* waiting in its select, as NotifyControlValueUpdate does
TickNonBlocking ==
    LET message == buildUIStateMessage(config, liveStreams, FALSE)
    IN /\ pc = "running"
       /\ at["monitor"] = Idle
       /\ prevStateHash # <<message>>
       /\ prevStateHash' = <<message>>
       /\ at' = IF at["broadcast"] = Idle
                THEN [at EXCEPT !["monitor"] = [pc |-> "sending", value |-> message]]
                ELSE at
       /\ UNCHANGED <<pc, file, backup, config, Rules, saveDebouncer, sweep, mig, ops, lastOp,
                      saved, loaded, saveMutex, header, matched, migrations, liveStreams,
                      resolved, tmp, clients, writes>>

\* monitorAudioSources, a tick of the 2 s ticker on which the state message
\* differs from the last one sent: the hash is stored and the goroutine goes to
\* send the message on s.broadcast (a tick with an equal message changes nothing)
Tick ==
    LET message == buildUIStateMessage(config, liveStreams, FALSE)
    IN /\ pc = "running"
       /\ at["monitor"] = Idle
       /\ prevStateHash # <<message>>
       /\ prevStateHash' = <<message>>
       /\ at' = [at EXCEPT !["monitor"] = [pc |-> "sending", value |-> message]]
       /\ UNCHANGED <<pc, file, backup, config, Rules, saveDebouncer, sweep, mig, ops, lastOp,
                      saved, loaded, saveMutex, header, matched, migrations, liveStreams,
                      resolved, tmp, clients, writes>>

\* handleBroadcasts, case message := <-s.broadcast: the send of
\* monitorAudioSources completes when the loop is in its select
BroadcastReceive ==
    /\ at["monitor"].pc = "sending"
    /\ at["broadcast"] = Idle
    /\ at' = [at EXCEPT !["monitor"] = Idle,
                        !["broadcast"] = [pc |-> "broadcasting",
                                          value |-> at["monitor"].value]]
    /\ UNCHANGED <<pc, file, backup, config, Rules, saveDebouncer, sweep, mig, ops, lastOp,
                   saved, loaded, saveMutex, header, matched, migrations, liveStreams, resolved,
                   tmp, prevStateHash, clients, writes>>

\* handleBroadcasts has written the state message to every client
BroadcastDone ==
    /\ at["broadcast"].pc = "broadcasting"
    /\ at' = [at EXCEPT !["broadcast"] = Idle]
    /\ clients' = [c \in DOMAIN clients |->
                    [clients[c] EXCEPT
                        !.sliderAssignments = at["broadcast"].value.sliderAssignments,
                        !.knobAssignments = at["broadcast"].value.knobAssignments]]
    /\ UNCHANGED <<pc, file, backup, config, Rules, saveDebouncer, sweep, mig, ops, lastOp,
                   saved, loaded, saveMutex, header, matched, migrations, liveStreams, resolved,
                   tmp, prevStateHash, writes>>

\* the state Run leaves when it found the new-format file, every client
\* connected and its getState answered
InitUI ==
    LET r == Load(NewFormatFile, Missing)
    IN /\ pc = "running"
       /\ file = r.file
       /\ backup = r.backup
       /\ config = r.config
       /\ Rules \in Compilations(r.config)
       /\ saveDebouncer = FALSE
       /\ sweep = NoSweep
       /\ mig = NoMig
       /\ ops = 0
       /\ lastOp = BlankOp("SweepEnd")
       /\ saved = Nil
       /\ loaded = r.config
       /\ saveMutex = Nil
       /\ at = [g \in Goroutines |-> Idle]
       /\ header = HeaderOf(Rules)
       /\ matched = Nil
       /\ migrations = {}
       /\ liveStreams = ServerStreams
       /\ resolved = Nil
       /\ tmp = Missing
       /\ prevStateHash = Nil
       /\ clients = [c \in ClientIds |->
                        ViewOf(buildUIStateMessage(r.config, ServerStreams, TRUE))]
       /\ writes = 0

NextUI ==
    \/ \E key \in UIControls, source \in UISources : AssignControlMsg(key[1], key[2], source)
    \/ \E key \in UIControls, source \in UISources : UnassignControlMsg(key[1], key[2], source)
    \/ \E event \in UIEvents : ControlChangeUI(event[1], event[2], event[3])
    \/ Tick
    \/ BroadcastReceive
    \/ BroadcastDone
    \/ WriteMessageDone

SpecUI == InitUI /\ [][NextUI]_vars

\* the ticker ticks, the loop's select takes a pending send, and a write to a
\* responsive client ends
SpecUIFair ==
    /\ SpecUI
    /\ WF_vars(Tick)
    /\ WF_vars(BroadcastReceive)
    /\ WF_vars(BroadcastDone)
    /\ WF_vars(WriteMessageDone)

----------------------------------------------------------------------------
(* Specification *)

Next ==
    \/ Run
    \/ Signal
    \/ SaveNow
    \/ \E msg \in UIUpdates :
            UpdateControlValueMsg(msg[1], msg[2], msg[3])
    \/ \E key \in UIControls, source \in UISources :
            AssignControlMsg(key[1], key[2], source)
    \/ \E key \in UIControls, source \in UISources :
            UnassignControlMsg(key[1], key[2], source)
    \/ \E event \in CCEvents :
            ControlChangeMsg(event[1], event[2], event[3])
    \/ \E channel \in MidiChannels, note \in MidiNotes, velocity \in MidiVelocities :
            NoteMsg(channel, note, velocity)
    \/ \E channel \in MidiChannels, program \in MidiPrograms :
            ProgramChangeMsg(channel, program)
    \/ \E key \in sweep.todo : SweepVisit(key)
    \/ SweepSource
    \/ MigrateAssign
    \/ SweepEnd

Spec == Init /\ [][Next]_vars

\* the program started without a configuration file: Load synthesizes the scaffold
InitScaffold == Init /\ file = Missing
SpecScaffold == InitScaffold /\ [][Next]_vars

----------------------------------------------------------------------------
(* Properties *)

ControlTypes == {"slider", "knob"}

\* the bindings of a configuration, as <<controlType, controlId>> pairs
Bindings(c) == UNION {{<<t, id>> : id \in DOMAIN ControlsOf(c, t)} : t \in ControlTypes}
Binding(c, b) == ControlsOf(c, b[1])[b[2]]

\* the step is a call of AssignSource / UnassignSource with lastOp's arguments
AssignStep == lastOp'.op \in {"AssignSource", "MigrateAssign"}
UnassignStep == lastOp'.op \in {"UnassignSource", "MigrateUnassign"}
\* the binding the step's call names exists and holds (does not hold) the source
TargetBound == <<lastOp'.controlType, lastOp'.controlId>> \in Bindings(config)
SourcePresent ==
    /\ TargetBound
    /\ lastOp'.source \in
            Range(Binding(config, <<lastOp'.controlType, lastOp'.controlId>>).Sources)

\* C1: every binding's currentValue is an integer in 0..100 at all times
\* (updateValue, from the hardware or from a UI updateControlValue, clamps).
C1_ValueInRange ==
    \A b \in Bindings(config) : Binding(config, b).Value \in 0..100

\* C2: assigning a ref that is already among a binding's targets (equal category,
\* displayName and disambiguator) leaves the targets, and the whole
\* configuration, unchanged.
C2_AssignIdempotent ==
    [][(AssignStep /\ SourcePresent) => config' = config]_vars

\* an assign of a source the binding already held has returned without publishing
C2_Witness ==
    /\ lastOp.op = "AssignSource"
    /\ lastOp.notified = <<>>
    /\ <<lastOp.controlType, lastOp.controlId>> \in Bindings(config)
    /\ lastOp.source \in
            Range(Binding(config, <<lastOp.controlType, lastOp.controlId>>).Sources)

\* C3: starting from the default scaffold, after any assign, unassign, updateValue
\* and migration operations, no binding's targets hold two entries that agree on
\* category, displayName and disambiguator.
C3_NoDuplicateTargets ==
    \A b \in Bindings(config) :
        LET sources == Binding(config, b).Sources
        IN \A i, j \in DOMAIN sources :
                (/\ sources[i].Type = sources[j].Type
                 /\ sources[i].Name = sources[j].Name
                 /\ sources[i].BinaryName = sources[j].BinaryName) => i = j

\* a migration has assigned the disambiguated source to a binding that already held it
C3_Witness ==
    /\ lastOp.op = "MigrateAssign"
    /\ lastOp.notified = <<>>
    /\ lastOp.source.BinaryName # ""
    /\ lastOp.source \in
            Range(Binding(config, <<lastOp.controlType, lastOp.controlId>>).Sources)

\* C4: unassign removes from the binding exactly the entries equal to the ref on
\* category, displayName and disambiguator (an empty disambiguator removes only
\* the legacy entry); the other targets remain, in their order, and so does every
\* other binding.
C4_UnassignExact ==
    [][(UnassignStep /\ TargetBound) =>
            LET b == <<lastOp'.controlType, lastOp'.controlId>>
                differs(e) == \/ e.Type # lastOp'.source.Type
                              \/ e.Name # lastOp'.source.Name
                              \/ e.BinaryName # lastOp'.source.BinaryName
            IN /\ Bindings(config') = Bindings(config)
               /\ Binding(config', b).Sources = SelectSeq(Binding(config, b).Sources, differs)
               /\ \A o \in Bindings(config) \ {b} : Binding(config', o) = Binding(config, o)
       ]_vars

\* the legacy entry was unassigned from a binding that keeps the same-named
\* disambiguated entry and another target, in their order
C4_Witness ==
    /\ lastOp.op = "UnassignSource"
    /\ lastOp.source = Source("PlaybackStream", "Music", "")
    /\ <<lastOp.controlType, lastOp.controlId>> \in Bindings(config)
    /\ Binding(config, <<lastOp.controlType, lastOp.controlId>>).Sources =
            <<Source("PlaybackStream", "Music", "mpv"), Source("OutputDevice", "Speakers", "")>>

\* C5 (as stated): unassign of a ref that is not present in the binding publishes
\* no "unassigned" notification and triggers no rule recompilation.
C5_NoNotificationWhenAbsent ==
    [][(UnassignStep /\ ~SourcePresent) =>
            (lastOp'.notified = <<>> /\ Rules' = Rules)]_vars

\* C5 (amended): unassign of a ref that is not present in the binding leaves the
\* configuration unchanged, and still publishes "source.unassigned", schedules
\* a save and has the rules recompiled from the unchanged configuration.
C5_UnassignAbsentStillPublishes ==
    [][(UnassignStep /\ ~SourcePresent) =>
            /\ config' = config
            /\ lastOp'.notified = <<"source.unassigned">>
            /\ saveDebouncer'
            /\ Rules' \in Compilations(config)]_vars

\* the first operation on the freshly synthesized scaffold (no targets anywhere)
\* was an unassign, and it published
C5_Witness ==
    /\ lastOp.op = "UnassignSource"
    /\ lastOp.notified = <<"source.unassigned">>
    /\ ops = 1
    /\ backup = Missing
    /\ saved = Nil
    /\ \A b \in Bindings(config) : Binding(config, b).Sources = <<>>
    /\ file = Yaml(MarshalConfig(config))

\* C6: after Load (missing, new-format or legacy file) and after any later store
\* operations, the configuration holds the 16 scaffold bindings slider1..slider8
\* and knob1..knob8; when the file is missing, the loaded and written configuration
\* is exactly the scaffold, every binding's targets empty.
C6_ScaffoldPresent ==
    [][/\ pc' = "running" =>
            \A n \in 1..8 : /\ SliderId(n) \in DOMAIN config'.Controls.Sliders
                            /\ KnobId(n) \in DOMAIN config'.Controls.Knobs
       /\ (file = Missing /\ lastOp'.op = "Run") =>
            /\ DOMAIN config'.Controls.Sliders = {SliderId(n) : n \in 1..8}
            /\ DOMAIN config'.Controls.Knobs = {KnobId(n) : n \in 1..8}
            /\ \A n \in 1..8 :
                    /\ config'.Controls.Sliders[SliderId(n)] =
                            ControlConfig(SliderPath(n), DefaultValue, <<>>)
                    /\ config'.Controls.Knobs[KnobId(n)] =
                            ControlConfig(KnobPath(n), DefaultValue, <<>>)
            /\ config'.Device = DefaultDevice
            /\ file' = Yaml(MarshalConfig(config'))
      ]_vars

\* the program has just loaded where no file was: 16 bindings without targets,
\* and the file now holds them
C6_Witness ==
    /\ lastOp.op = "Run"
    /\ pc = "running"
    /\ ops = 0
    /\ backup = Missing
    /\ Cardinality(Bindings(config)) = 16
    /\ \A b \in Bindings(config) : Binding(config, b).Sources = <<>>
    /\ file = Yaml(MarshalConfig(config))

\* C7: every key of the sliders map is one of slider1..slider8 and every key of
\* the knobs map one of knob1..knob8, each with the path GroupN/Slider or
\* GroupN/Knob of its own index N; no operation creates another binding.
C7_OnlyScaffoldBindings ==
    /\ \A id \in DOMAIN config.Controls.Sliders :
            \E n \in 1..8 : /\ id = SliderId(n)
                            /\ config.Controls.Sliders[id].Path = SliderPath(n)
    /\ \A id \in DOMAIN config.Controls.Knobs :
            \E n \in 1..8 : /\ id = KnobId(n)
                            /\ config.Controls.Knobs[id].Path = KnobPath(n)

\* C8: a configuration the store saved is the configuration a later Load of the
\* file yields: same device, and for every binding the same path, value and
\* targets (order and disambiguators included).
C8_SaveLoadRoundTrip ==
    (lastOp.op = "Run" /\ pc = "running" /\ saved # Nil) => config = saved[1]

\* the program restarted from a file SaveNow wrote, whose bindings include one
\* with several targets, a disambiguated one among them
C8_Witness ==
    /\ lastOp.op = "Run"
    /\ pc = "running"
    /\ saved # Nil
    /\ config = saved[1]
    /\ \E b \in Bindings(config) :
            /\ Len(Binding(config, b).Sources) >= 2
            /\ \E i \in DOMAIN Binding(config, b).Sources :
                    Binding(config, b).Sources[i].BinaryName # ""

\* the (category, displayName) targets of a legacy rule's SetVolume actions, in order
LegacyTargets(rule) ==
    LET isSetVolume(a) == a["type"] = SetVolume
        vols == SelectSeq(rule["actions"], isSetVolume)
    IN [i \in DOMAIN vols |-> Source(vols[i]["target"]["type"], vols[i]["target"]["name"], "")]

\* C9: loading a legacy file gives, for every legacy rule whose path is
\* GroupN/Slider or GroupN/Knob with N in 1..8, the binding sliderN / knobN
\* exactly that rule's SetVolume targets, in order; the legacy file is kept as a
\* backup and the file is rewritten in the new format.
C9_LegacyConverted ==
    (lastOp.op = "Run" /\ pc = "running" /\ ops = 0 /\ backup # Missing) =>
        /\ \A i \in DOMAIN backup.doc["rules"] :
                LET rule == backup.doc["rules"][i]
                    path == rule["midiMessage"]["deviceControlPath"]
                IN \A n \in 1..8 :
                        /\ path = SliderPath(n) =>
                                config.Controls.Sliders[SliderId(n)].Sources = LegacyTargets(rule)
                        /\ path = KnobPath(n) =>
                                config.Controls.Knobs[KnobId(n)].Sources = LegacyTargets(rule)
        /\ file = Yaml(MarshalConfig(config))

\* the step ran createRulesFromConfig: at startup, or in a subscriber of
\* "source.assigned" / "source.unassigned"
RecompileStep ==
    \/ lastOp'.op = "Run" /\ pc' = "running"
    \/ lastOp'.notified \in {<<"source.assigned">>, <<"source.unassigned">>}

\* C10: compiling an unchanged configuration again yields the same rule list in
\* the same order, and a compiled list has the rules of the sliders in index
\* order (controllers 0..7) followed by those of the knobs (controllers 16..23).
C10_CompilationOrderStable ==
    [][RecompileStep =>
            /\ (pc = "running" /\ config' = config) => Rules' = Rules
            /\ \A i, j \in DOMAIN Rules' :
                    i < j => Rules'[i].MidiMessage.Controller < Rules'[j].MidiMessage.Controller
      ]_vars

\* the index a control id carries, and the controller of that index
IndexOf(controlId) == NumVal[controlId[2]]
ExpectedController(b) ==
    IF b[1] = "slider" THEN IndexOf(b[2]) - 1 ELSE 16 + IndexOf(b[2]) - 1

\* the positions in the compiled list of the rules made for binding b
RulesFor(b) ==
    {i \in DOMAIN Rules : Rules[i].MidiMessage.DeviceControlPath = Binding(config, b).Path}

CCStep == lastOp'.op = "ControlChange"

\* C13: a control-change event (channel 0, controller c, value v) on the controller
\* of a binding that has targets applies the volume v/127 to each of that binding's
\* targets, in order, and to no target of another binding.
C13_DispatchVolume ==
    [][CCStep =>
            \A b \in Bindings(config) :
                (/\ Binding(config, b).Sources # <<>>
                 /\ lastOp'.channel = 0
                 /\ lastOp'.controller = ExpectedController(b)) =>
                    LET sources == Binding(config, b).Sources
                    IN lastOp'.applied =
                            [k \in DOMAIN sources |->
                                [Target |-> [Type |-> sources[k].Type,
                                             Name |-> sources[k].Name,
                                             BinaryName |-> sources[k].BinaryName],
                                 num |-> lastOp'.value,
                                 den |-> 127]]
      ]_vars

\* a full-scale event on controller 0 applied 127/127 to the three targets of
\* slider1 and not to the target of knob1
C13_Witness ==
    /\ lastOp.op = "ControlChange"
    /\ lastOp.controller = 0
    /\ lastOp.value = 127
    /\ Len(lastOp.applied) = 3
    /\ \A k \in DOMAIN lastOp.applied :
            /\ lastOp.applied[k].num = 127
            /\ lastOp.applied[k].den = 127
            /\ lastOp.applied[k].Target.Name # "Headphones"
    /\ Binding(config, <<"knob", KnobId(1)>>).Sources = <<Source("OutputDevice", "Headphones", "")>>

\* binding b of the new configuration holds a percentage of the event's value v
\* (rounded either way) and is otherwise as before; every other binding is as before
TracksValue(b, v) ==
    /\ Bindings(config') = Bindings(config)
    /\ b \in Bindings(config)
    /\ Binding(config', b).Path = Binding(config, b).Path
    /\ Binding(config', b).Sources = Binding(config, b).Sources
    /\ Binding(config', b).Value * 127 - v * 100 < 127
    /\ v * 100 - Binding(config', b).Value * 127 < 127
    /\ \A o \in Bindings(config) \ {b} : Binding(config', o) = Binding(config, o)

\* C14: a control-change event with controller c in 0..7 updates the value of
\* slider c+1, and one with c in 16..23 that of knob c-15, whether or not a rule
\* matches; an event with another controller, and a Note or Program-Change event,
\* changes no value.
C14_ValueTracking ==
    [][/\ CCStep =>
            LET c == lastOp'.controller
            IN /\ c \in 0..7 => TracksValue(<<"slider", SliderId(c + 1)>>, lastOp'.value)
               /\ c \in 16..23 => TracksValue(<<"knob", KnobId(c - 15)>>, lastOp'.value)
               /\ c \notin (0..7) \cup (16..23) => config' = config
       /\ lastOp'.op \in {"Note", "ProgramChange"} => config' = config
      ]_vars

\* a full-scale event on controller 16 moved knob1 to 100 while knob1 had no
\* targets and no rule matched
C14_Witness ==
    /\ lastOp.op = "ControlChange"
    /\ lastOp.controller = 16
    /\ lastOp.value = 127
    /\ lastOp.applied = <<>>
    /\ Binding(config, <<"knob", KnobId(1)>>).Sources = <<>>
    /\ Binding(config, <<"knob", KnobId(1)>>).Value = 100
    /\ Rules = <<>>

\* round(v / 127 * 100), the nearest integer percentage
RoundPercent(v) == (v * 200 + 127) \div 254

\* C15: for every hardware value v in 0..127 on a slider or knob controller, the
\* value stored is round(v / 127 * 100): 0 gives 0, 127 gives 100, 1 gives 1.
C15_RoundedPercent ==
    lastOp.op = "ControlChange" =>
        /\ lastOp.controller \in 0..7 =>
                Binding(config, <<"slider", SliderId(lastOp.controller + 1)>>).Value
                    = RoundPercent(lastOp.value)
        /\ lastOp.controller \in 16..23 =>
                Binding(config, <<"knob", KnobId(lastOp.controller - 15)>>).Value
                    = RoundPercent(lastOp.value)

\* the binary names of the live streams of a source's category that carry its name
LiveBinaryNames(source) ==
    LET streams == CASE source.Type = "PlaybackStream" -> playbackStreams
                     [] source.Type = "RecordStream" -> recordStreams
                     [] OTHER -> <<>>
    IN {streams[i].BinaryName : i \in {j \in DOMAIN streams :
                                        /\ streams[j].Name = source.Name
                                        /\ streams[j].BinaryName # ""}}

\* a stored stream ref without disambiguator that a live stream can disambiguate
Migratable(source) == source.BinaryName = "" /\ LiveBinaryNames(source) # {}

\* in configuration c, binding b holds source's disambiguated ref, not the legacy ref
Migrated(c, b, source) ==
    /\ Source(source.Type, source.Name, "") \notin Range(Binding(c, b).Sources)
    /\ \E d \in LiveBinaryNames(source) :
            Source(source.Type, source.Name, d) \in Range(Binding(c, b).Sources)

\* C16: after one hardware control-change event on the controller of a binding
\* that holds a stream ref with empty disambiguator, for which a live stream of
\* the same category and displayName carries the disambiguator d, the binding
\* holds (category, displayName, d) and no longer the legacy ref.
C16_MigratesOnEvent ==
    [][CCStep =>
            \A b \in Bindings(config) :
                (lastOp'.channel = 0 /\ lastOp'.controller = ExpectedController(b)) =>
                    \A k \in DOMAIN Binding(config, b).Sources :
                        Migratable(Binding(config, b).Sources[k]) =>
                            Migrated(config', b, Binding(config, b).Sources[k])
      ]_vars

C18_FlushOnSignal ==
    [][(lastOp'.op = "Signal" /\ saveDebouncer) => file' = Yaml(MarshalConfig(config))]_vars

\* C20: started on a configuration file that cannot be parsed, the program falls
\* back to the default scaffold and keeps running, and leaves the file as it was.
C20_FallbackOnUnparseable ==
    [][(pc = "stopped" /\ file = Garbage /\ lastOp'.op \in {"Run", "exit"}) =>
            /\ pc' = "running"
            /\ config' = GetDefaultConfig
            /\ file' = Garbage
      ]_vars

\* the state Run leaves on a missing file is a state of the running program
C19_InitLockReached ==
    /\ pc = "running"
    /\ file = Yaml(MarshalConfig(GetDefaultConfig))
    /\ config = GetDefaultConfig
    /\ lastOp.op = "Run"
    /\ saveMutex = Nil

\* C19: every read of the Configuration is mutually exclusive with every write:
\* no goroutine reads it while another is inside UpdateControlValue.
C19_ReadWriteExclusion ==
    \A g, h \in Goroutines : ~(at[g].pc = "reading" /\ at[h].pc = "locked")

C22_AtomicSwap ==
    [][matched' # matched =>
            \/ matched'[1] = Rules
            \/ at["ws"].pc # "idle" /\ matched'[1] = at["ws"].value
      ]_vars

\* installed lists are replaced, never changed in place: outside UpdateRules the
\* slice in memory is the installed list
C22_ReplacedWholesale ==
    at["ws"] = Idle => header = HeaderOf(Rules)

\* a migration is between its two store calls: the binding holds neither the
\* legacy ref nor the disambiguated ref
MidMigration ==
    /\ mig.active
    /\ mig.pending # <<>>
    /\ LET sources == Binding(config, <<mig.controlType, mig.controlId>>).Sources
       IN /\ mig.pending[1] \notin Range(sources)
          /\ Source(mig.pending[1].Type, mig.pending[1].Name, "") \notin Range(sources)

\* C23: migration is atomic: no rule list is compiled from, and no hardware event
\* or UI message is processed in, the state where the legacy ref has been
\* removed and the disambiguated ref has not yet been added.
C23_MigrationAtomic ==
    [][(RecompileStep \/ CCStep \/ lastOp'.op = "UpdateControlValue") => ~MidMigration']_vars

\* the step is one of the two store calls of MigrateSourceBinaryName
MigrationStep == lastOp'.op \in {"MigrateUnassign", "MigrateAssign"}

Candidates(streams, name) ==
    {i \in DOMAIN streams : streams[i].Name = name /\ streams[i].BinaryName # ""}

\* C25: the disambiguator chosen for the migration of a legacy ref is that of
\* the first live stream, in enumeration order, of the ref's category that has
\* the ref's name and a non-empty disambiguator; there is none exactly when no
\* such stream is live.
C25_FirstCandidate ==
    (resolved # Nil /\ resolved.target.BinaryName = "") =>
        LET streams == liveStreams[resolved.target.Type]
            cands == Candidates(streams, resolved.target.Name)
        IN IF cands = {} THEN resolved.migrationStream = Nil
           ELSE resolved.migrationStream =
                    <<streams[CHOOSE i \in cands : \A j \in cands : i <= j]>>

\* three streams named "Music": the first has no binary name and is skipped, the
\* second gives the disambiguator, the third does not override it
C25_Witness ==
    /\ resolved # Nil
    /\ resolved.call = "SmartMatchStreams"
    /\ resolved.target = [Type |-> "PlaybackStream", Name |-> "Music", BinaryName |-> ""]
    /\ liveStreams.PlaybackStream =
            <<[Name |-> "Music", BinaryName |-> ""], [Name |-> "Music", BinaryName |-> "vlc"],
              [Name |-> "Music", BinaryName |-> "mpv"]>>
    /\ resolved.migrationStream = <<[Name |-> "Music", BinaryName |-> "vlc"]>>

\* the live streams a stream ref resolves to
Resolve(streams, target) ==
    SelectSeq(streams, LAMBDA stream :
        /\ stream.Name = target.Name
        /\ target.BinaryName # "" => stream.BinaryName = target.BinaryName)

\* C26: a stream ref with a disambiguator resolves to exactly the live streams
\* of its category with its name and its disambiguator, one without to all live
\* streams of its category with its name; the volume is applied to exactly those
\* streams, to none when the ref matches no live stream.
C26_Resolution ==
    resolved # Nil =>
        /\ resolved.matchedStreams
                = Resolve(liveStreams[resolved.target.Type], resolved.target)
        /\ resolved.call = "ProcessVolumeAction" =>
                DOMAIN resolved.volumes = DOMAIN resolved.matchedStreams

\* a ref with disambiguator "vlc" picks the one stream of two with its name
C26_Witness ==
    /\ resolved # Nil
    /\ resolved.call = "ProcessVolumeAction"
    /\ resolved.target = [Type |-> "PlaybackStream", Name |-> "Music", BinaryName |-> "vlc"]
    /\ liveStreams.PlaybackStream =
            <<[Name |-> "Music", BinaryName |-> "mpv"], [Name |-> "Music", BinaryName |-> "vlc"]>>
    /\ resolved.matchedStreams = <<[Name |-> "Music", BinaryName |-> "vlc"]>>
    /\ resolved.volumes = <<100>>

\* a ref that matches no live stream: nothing is resolved, no volume is set
C26_WitnessNone ==
    /\ resolved # Nil
    /\ resolved.call = "ProcessVolumeAction"
    /\ resolved.target.Name = "Absent"
    /\ liveStreams.PlaybackStream # <<>>
    /\ resolved.matchedStreams = <<>>
    /\ resolved.volumes = <<>>

\* C27: when assign appends a ref to a binding whose currentValue is v, the same
\* call publishes "assigned" carrying v and applies the volume v/100 to the ref's
\* target, without a hardware event.
C27_ImmediateSync ==
    [][(AssignStep /\ config' # config) =>
            LET v == Binding(config, <<lastOp'.controlType, lastOp'.controlId>>).Value
            IN /\ lastOp'.notified = <<"source.assigned">>
               /\ lastOp'.value = v
               /\ lastOp'.applied = <<VolumeCall(TypedTarget(lastOp'.source)[1], v, 100)>>
      ]_vars

\* a UI assign on slider3, whose value is the scaffold's 50: volume 50/100 applied
C27_Witness ==
    /\ lastOp.op = "AssignSource"
    /\ lastOp.controlId = SliderId(3)
    /\ lastOp.source \in Range(Binding(config, <<"slider", SliderId(3)>>).Sources)
    /\ lastOp.notified = <<"source.assigned">>
    /\ lastOp.value = DefaultValue
    /\ lastOp.applied = <<VolumeCall(TypedTarget(lastOp.source)[1], DefaultValue, 100)>>

\* C28: every volume handed to the audio server lies in [0, 1], whether it comes
\* from a hardware event, from the immediate sync of an assign or from the
\* startup sweep.
C28_VolumeInUnitRange ==
    \A i \in DOMAIN lastOp.applied :
        /\ lastOp.applied[i].den > 0
        /\ 0 <= lastOp.applied[i].num
        /\ lastOp.applied[i].num <= lastOp.applied[i].den

\* C29: persistence never blocks a caller of the store: while SaveNow is writing
\* the file on the timer's goroutine, a goroutine that calls UpdateControlValue
\* can go ahead without waiting for the write to end.
C29_SaveNeverBlocks ==
    at["timer"].pc = "saving" =>
        \A g \in Writers :
            at[g] = Idle =>
                ENABLED (\E value \in WriterValues(g) : UpdateControlValueLock(g, value))

\* C30: while the broadcast loop is busy writing to its clients, every hardware
\* event is still handled to the end: its notification is dropped (the loop's
\* work is untouched), the value of the binding of the event's controller (0..7,
\* 16..23) is updated and one volume call is made per target of that binding.
C30_HardwarePathNotStalled ==
    at["broadcast"].pc = "writing" =>
        \A event \in CCEvents :
            ENABLED (/\ ControlChangeNotify(event[1], event[2], event[3])
                     /\ at' = at
                     /\ \A b \in Bindings(config) :
                            (/\ ExpectedController(b) = event[2]
                             /\ event[2] \in (0..7) \cup (16..23)) =>
                                /\ Binding(config', b).Value = Percent(event[3])
                                /\ Len(lastOp'.applied) = Len(Binding(config, b).Sources))

\* the loop is still writing the update of knob1 when an event on controller 0
\* has moved slider1 and its three targets
C30_Witness ==
    /\ at["broadcast"] = [pc |-> "writing", value |-> <<"knob", KnobId(1), 100>>]
    /\ lastOp.op = "ControlChange"
    /\ lastOp.controller = 0
    /\ lastOp.value = 127
    /\ Binding(config, <<"slider", SliderId(1)>>).Value = 100
    /\ Len(lastOp.applied) = 3

----------------------------------------------------------------------------
\* C34: when the audio server answers the query for one category with an error,
\* the enumeration still returns streams (those of the other categories) and the
\* process keeps running.
C34_FailsSoft ==
    [][lastOp'.op = "panic" => (pc' = "running" /\ resolved' # Nil)]_vars

----------------------------------------------------------------------------
\* C35: an assign that names no binding of the configuration leaves the store
\* unchanged, publishes nothing and applies no volume.
C35_AssignNeedsBinding ==
    [][(/\ AssignStep
        /\ lastOp'.op = "AssignSource"
        /\ <<lastOp'.controlType, lastOp'.controlId>> \notin Bindings(config)) =>
           (/\ config' = config
            /\ lastOp'.notified = <<>>
            /\ lastOp'.applied = <<>>)]_vars

----------------------------------------------------------------------------
\* the step is a call of UpdateControlValue, from the UI or from a hardware event
UpdateStep ==
    \/ lastOp'.op = "UpdateControlValue"
    \/ lastOp'.op = "ControlChange" /\ lastOp'.controlType # ""

\* the control the step's call names
Named == <<lastOp'.controlType, lastOp'.controlId>>

\* the maps of the named control's type before and after the step
NamedMap == ControlsOf(config, Named[1])
NamedMapAfter == ControlsOf(config', Named[1])

\* the bindings that existed before the step differ from their old selves at
\* most in the given field of the named control
FrameOf(field) ==
    /\ Named[1] # "slider" => config'.Controls.Sliders = config.Controls.Sliders
    /\ Named[1] # "knob" => config'.Controls.Knobs = config.Controls.Knobs
    /\ IF Named[2] \in DOMAIN NamedMapAfter
       THEN NamedMapAfter = MapPut(NamedMap, Named[2], NamedMapAfter[Named[2]])
       ELSE NamedMapAfter = NamedMap
    /\ Named[2] \in DOMAIN NamedMap =>
            /\ Named[2] \in DOMAIN NamedMapAfter
            /\ \A f \in {"Path", "Value", "Sources"} \ {field} :
                    NamedMapAfter[Named[2]][f] = NamedMap[Named[2]][f]

\* the step adds no binding
SameBindings == DOMAIN NamedMapAfter = DOMAIN NamedMap

\* assign and unassign change only the named control's targets, and no store
\* operation changes the device
AssignFrame ==
    /\ (AssignStep \/ UnassignStep) => (SameBindings /\ FrameOf("Sources"))
    /\ (pc = "running" /\ pc' = "running") => config'.Device = config.Device

----------------------------------------------------------------------------
\* C40: handling an update passed to NotifyConfigUpdate returns to the loop's
\* select: handleBroadcasts never waits in a send on the broadcast channel, of
\* which it is the only receiver.
C40_LoopNeverSendsToItself == at["broadcast"].pc # "sending"

----------------------------------------------------------------------------
\* C36: the device-specific rule update at the start of MidiClient.Run never
\* replaces a rule list that UpdateRules installed from the current configuration
\* by a list derived from an older configuration.
C36_NoStaleOverwrite ==
    [][(/\ at["midi"].pc = "device"
        /\ at'["midi"].pc = "select"
        /\ at["ws"] = Idle
        /\ Rules \in Compilations(config)) =>
            Rules' \in Compilations(config')]_vars

----------------------------------------------------------------------------
\* C33: at every instant, and so after a crash at any step of any write, the
\* configuration path holds a complete document: it is never a partly written
\* file, and never absent once the program has put the old file aside.
C33_NeverTorn ==
    /\ file.kind # "partial"
    /\ ~(file = Missing /\ backup # Missing)

----------------------------------------------------------------------------
\* C32: between two consecutive mutations, and after the last mutation of a
\* burst, the configuration file is written at most once.
C32_OneWritePerWindow == writes <= 1

----------------------------------------------------------------------------
\* the assignments of the state message for the store's current configuration
CurrentAssignments == buildUIStateMessage(config, liveStreams, FALSE)

C37_ValuesDelivered ==
    <>[](\A c \in DOMAIN clients : \A b \in Bindings(config) :
            /\ b \in DOMAIN clients[c].values
            /\ clients[c].values[b] = Binding(config, b).Value)

============================================================================
